---------------------------- MODULE Spec2Model ----------------------------
(***************************************************************************)
(* A model of the Wayback archiver of ccspace (src/archive_site.py):       *)
(* the path mapper, the content fetcher, the page graph discoverer, the    *)
(* link rewriter and the orchestrating archive() run.                      *)
(*                                                                         *)
(* Strings are sequences of one-character strings, so that the string      *)
(* operations of the code (startswith, split, regular expressions, ...)    *)
(* are computed the way the code computes them.                            *)
(***************************************************************************)
EXTENDS Integers, Sequences, FiniteSets, TLC

(***************************************************************************)
(* Python string operations                                                *)
(***************************************************************************)
Min(a, b) == IF a <= b THEN a ELSE b

Max(a, b) == IF a >= b THEN a ELSE b

\* the least element of a set of numbers, d when the set is empty
MinOr(S, d) == IF S = {} THEN d ELSE CHOOSE j \in S : \A k \in S : j <= k

\* the greatest element of a set of numbers, d when the set is empty
MaxOr(S, d) == IF S = {} THEN d ELSE CHOOSE j \in S : \A k \in S : j >= k

\* s[i:] of Python, with i a 1-based position
From(s, i) == SubSeq(s, i, Len(s))

\* str.startswith
StartsWith(s, p) == Len(s) >= Len(p) /\ SubSeq(s, 1, Len(p)) = p

\* str.endswith
EndsWith(s, p) == Len(s) >= Len(p) /\ SubSeq(s, Len(s) - Len(p) + 1, Len(s)) = p

\* str.startswith with a tuple of prefixes
StartsWithAny(s, ps) == \E p \in ps : Len(s) >= Len(p) /\ SubSeq(s, 1, Len(p)) = p

\* the positions at which p occurs in s
Occurrences(s, p) == {j \in 1..(Len(s) - Len(p) + 1) : SubSeq(s, j, j + Len(p) - 1) = p}

\* p in s
Contains(s, p) == \E j \in 1..(Len(s) - Len(p) + 1) : SubSeq(s, j, j + Len(p) - 1) = p

\* str.find, 1-based, 0 when absent
Find(s, p) == MinOr(Occurrences(s, p), 0)

\* str.rfind, 1-based, 0 when absent
RFind(s, p) == MaxOr(Occurrences(s, p), 0)

\* the first position of s holding a character of cs, Len(s)+1 when none
FindAnyOf(s, cs) == MinOr({j \in 1..Len(s) : s[j] \in cs}, Len(s) + 1)

\* the number of leading characters of s that belong to cs
RunLen(s, cs) == MaxOr({k \in 0..Len(s) : \A j \in 1..k : s[j] \in cs}, 0)

\* the number of trailing characters of s that belong to cs
RunLenEnd(s, cs) == MaxOr({k \in 0..Len(s) : \A j \in (Len(s) - k + 1)..Len(s) : s[j] \in cs}, 0)

\* str.lstrip(c)
LStrip(s, c) == From(s, RunLen(s, {c}) + 1)

\* str.rstrip(c)
RStrip(s, c) == SubSeq(s, 1, Len(s) - RunLenEnd(s, {c}))

\* str.strip(c)
Strip(s, c) == RStrip(LStrip(s, c), c)

\* the positions of the separator c in s, with 0 before and Len(s)+1 after
Cuts(s, c) == {0, Len(s) + 1} \cup {j \in 1..Len(s) : s[j] = c}

\* the pieces of s between consecutive cuts, in order
Pieces(s, cuts) ==
    [n \in 1..(Cardinality(cuts) - 1) |->
        SubSeq(s,
               (CHOOSE a \in cuts : Cardinality({b \in cuts : b < a}) = n - 1) + 1,
               (CHOOSE a \in cuts : Cardinality({b \in cuts : b < a}) = n) - 1)]

\* str.split(c) for a one-character separator
Split(s, c) == Pieces(s, Cuts(s, c))

RECURSIVE Join(_, _)
\* c.join(parts)
Join(parts, c) == IF parts = <<>> THEN <<>>
                  ELSE IF Len(parts) = 1 THEN parts[1]
                  ELSE parts[1] \o <<c>> \o Join(Tail(parts), c)

\* the part of s before the first c (all of s when c is absent): s.split(c)[0]
Before(s, c) == SubSeq(s, 1, FindAnyOf(s, {c}) - 1)

\* the last piece of s.split(c): s.split(c)[-1]
AfterLast(s, c) == From(s, MaxOr({j \in 1..Len(s) : s[j] = c}, 0) + 1)

UpperCase == <<"A","B","C","D","E","F","G","H","I","J","K","L","M",
               "N","O","P","Q","R","S","T","U","V","W","X","Y","Z">>

LowerCase == <<"a","b","c","d","e","f","g","h","i","j","k","l","m",
               "n","o","p","q","r","s","t","u","v","w","x","y","z">>

Digits == {"0","1","2","3","4","5","6","7","8","9"}

Letters == {UpperCase[i] : i \in 1..26} \cup {LowerCase[i] : i \in 1..26}

LowerChar(c) == IF \E i \in 1..26 : UpperCase[i] = c
                THEN LowerCase[CHOOSE i \in 1..26 : UpperCase[i] = c]
                ELSE c

\* str.lower
Lower(s) == [i \in 1..Len(s) |-> LowerChar(s[i])]

\* the characters the regular expression class \w matches
WordChars == Letters \cup Digits \cup {"_"}

\* re.sub(r'[^\w\-]', '_', s)
SanitizeAction(s) == [i \in 1..Len(s) |-> IF s[i] \in WordChars \cup {"-"} THEN s[i] ELSE "_"]

(***************************************************************************)
(* String constants of the program                                         *)
(***************************************************************************)
DOMAIN_NAME == <<"c","c","s","p","a","c","e",".","o","r","g">>

WWW_DOMAIN == <<"w","w","w",".">> \o DOMAIN_NAME

SNAPSHOT_TIMESTAMP == <<"2","0","1","7","0","5","0","9","2","1","1","8","4","7">>

HTTP == <<"h","t","t","p",":","/","/">>

HTTPS == <<"h","t","t","p","s",":","/","/">>

SNAPSHOT_URL == HTTP \o WWW_DOMAIN \o <<"/">>

DOT_PHP == <<".","p","h","p">>

DOT_HTML == <<".","h","t","m","l">>

INDEX_HTML == <<"i","n","d","e","x">> \o DOT_HTML

ACTION_KEY == <<"a","c","t","i","o","n">>

ARCHIVE_ORG == <<"a","r","c","h","i","v","e",".","o","r","g">>

ASSET_EXTENSIONS == {
    <<".","c","s","s">>, <<".","j","s">>, <<".","p","n","g">>, <<".","j","p","g">>,
    <<".","j","p","e","g">>, <<".","g","i","f">>, <<".","s","v","g">>, <<".","i","c","o">>,
    <<".","w","o","f","f">>, <<".","w","o","f","f","2">>, <<".","t","t","f">>,
    <<".","e","o","t">>, <<".","o","t","f">>, <<".","w","e","b","p">>, <<".","m","p","4">>,
    <<".","w","e","b","m">>, <<".","p","d","f">>, <<".","j","s","o","n">>,
    <<".","x","m","l">>, <<".","m","a","p">>}

\* the value of a function result that is Python's None
None == <<"<None>">>


(***************************************************************************)
(* urllib.parse and os.path                                                *)
(***************************************************************************)
SchemeChars == Letters \cup Digits \cup {"+", "-", "."}

\* the first position in lo..hi of s that holds a character of cs, hi+1 when none
FirstPos(s, cs, lo, hi) == MinOr({j \in lo..hi : s[j] \in cs}, hi + 1)

\* urlsplit's scheme rule: the text before the first ':' (at position i) is
\* the scheme when it starts with a letter and holds only scheme characters
SchemeLenAt(url, i) ==
    IF i > 1 /\ url[1] \in Letters /\ \A k \in 1..(i - 1) : url[k] \in SchemeChars
    THEN i - 1 ELSE 0

SchemeLen(url) == SchemeLenAt(url, Find(url, <<":">>))

\* the parts of url, given the length n of the scheme, the start ns of the
\* netloc, the start b of the path and the positions q and h of '?' and '#'
UrlRecord(url, n, ns, b, q, h) ==
    [scheme   |-> Lower(SubSeq(url, 1, n)),
     netloc   |-> SubSeq(url, ns, b - 1),
     path     |-> SubSeq(url, b, q - 1),
     query    |-> SubSeq(url, q + 1, h - 1),
     fragment |-> SubSeq(url, h + 1, Len(url))]

UrlParseParts(url, n, ns, b, h) == UrlRecord(url, n, ns, b, FirstPos(url, {"?"}, b, h - 1), h)

UrlParseAt(url, n, ns, b) == UrlParseParts(url, n, ns, b, FirstPos(url, {"#"}, b, Len(url)))

\* a is the position after the scheme: '//' there starts the netloc, which
\* runs to the next '/', '?' or '#'
UrlParseNet(url, n, a) ==
    IF Len(url) >= a + 1 /\ url[a] = "/" /\ url[a + 1] = "/"
    THEN UrlParseAt(url, n, a + 2, FirstPos(url, {"/", "?", "#"}, a + 2, Len(url)))
    ELSE UrlParseAt(url, n, a, a)

UrlParseFrom(url, n) == UrlParseNet(url, n, IF n > 0 THEN n + 2 ELSE 1)

\* urllib.parse.urlparse(url): scheme, netloc, path, query, fragment
urlparse(url) == UrlParseFrom(url, SchemeLen(url))

\* the percent escapes urllib.parse.unquote decodes, for the characters of the model
HexDecode(h) == CASE h = <<"2","0">> -> <<" ">>
                  [] h = <<"2","F">> -> <<"/">>
                  [] h = <<"2","f">> -> <<"/">>
                  [] h = <<"2","D">> -> <<"-">>
                  [] h = <<"2","d">> -> <<"-">>
                  [] OTHER -> <<"%">> \o h

RECURSIVE unquote_plus(_)
\* unquote(s.replace('+', ' ')) as parse_qs applies it to names and values
unquote_plus(s) ==
    IF s = <<>> THEN <<>>
    ELSE IF Head(s) = "+" THEN <<" ">> \o unquote_plus(Tail(s))
    ELSE IF Head(s) = "%" /\ Len(s) >= 3
         THEN HexDecode(SubSeq(s, 2, 3)) \o unquote_plus(From(s, 4))
    ELSE <<Head(s)>> \o unquote_plus(Tail(s))

\* the pair parse_qs keeps for the field f whose first '=' is at e: a field
\* without '=' or with a blank value is dropped (keep_blank_values is False)
QsPair(f, e) ==
    IF e > 0 /\ e < Len(f)
    THEN <<[name  |-> unquote_plus(SubSeq(f, 1, e - 1)),
            value |-> unquote_plus(From(f, e + 1))]>>
    ELSE <<>>

RECURSIVE QsPairs(_)
QsPairs(fields) ==
    IF fields = <<>> THEN <<>>
    ELSE QsPair(Head(fields), Find(Head(fields), <<"=">>)) \o QsPairs(Tail(fields))

\* urllib.parse.parse_qs(query), as the sequence of its (name, value) pairs
parse_qs(query) == QsPairs(Split(query, "&"))

\* 'action' in query_params
HasAction(params) == \E i \in 1..Len(params) : params[i].name = ACTION_KEY

\* query_params['action'][0]
FirstAction(params) ==
    params[MinOr({k \in 1..Len(params) : params[k].name = ACTION_KEY}, 0)].value

DirnameAt(p, i) ==
    IF \E k \in 1..i : p[k] # "/" THEN RStrip(SubSeq(p, 1, i), "/") ELSE SubSeq(p, 1, i)

\* os.path.dirname
dirname(p) == DirnameAt(p, RFind(p, <<"/">>))

SplitextAt(p, sep, dot) ==
    IF dot > sep /\ \E k \in (sep + 1)..(dot - 1) : p[k] # "."
    THEN <<SubSeq(p, 1, dot - 1), From(p, dot)>>
    ELSE <<p, <<>> >>

\* os.path.splitext: the extension starts at the last dot of the last
\* component, leading dots of that component not counted
splitext(p) == SplitextAt(p, RFind(p, <<"/">>), RFind(p, <<".">>))

\* hashlib.md5(query.encode()).hexdigest()[:8], tabulated for the query
\* strings of the model
md5_hex8(q) ==
    CASE q = <<"a","c","t","i","o","n","=","e","v","e","n","t","s">>
           -> <<"1","1","8","7","6","a","2","f">>
      [] q = <<"f","o","o","=","b","a","r">>
           -> <<"0","6","a","d","4","7","d","8">>
      [] q = <<"i","d","=","1">>
           -> <<"6","8","1","a","f","e","3","4">>
      [] q = <<"i","d","=","1","&","a","c","t","i","o","n","=","e","v","e","n","t","s">>
           -> <<"1","4","6","7","3","a","a","4">>
      [] q = <<"a","c","t","i","o","n","=">>
           -> <<"e","8","3","f","1","7","c","9">>

(***************************************************************************)
(* pathlib.Path and os.path.relpath: a path is its sequence of components  *)
(***************************************************************************)
ARCHIVE_DIR == << <<"a","r","c","h","i","v","e">> >>

DOTDOT == <<".", ".">>

IsPathComponent(c) == c # <<>> /\ c # <<".">>

\* base / s, for a string s that does not start with '/': pathlib drops
\* empty and '.' components and keeps '..'
PathJoin(base, s) == base \o SelectSeq(Split(s, "/"), IsPathComponent)

\* Path.parent
Parent(path) == SubSeq(path, 1, Len(path) - 1)

RECURSIVE NormInto(_, _)
NormInto(acc, parts) ==
    IF parts = <<>> THEN acc
    ELSE IF Head(parts) = DOTDOT /\ acc # <<>> /\ acc[Len(acc)] # DOTDOT
         THEN NormInto(SubSeq(acc, 1, Len(acc) - 1), Tail(parts))
    ELSE NormInto(Append(acc, Head(parts)), Tail(parts))

\* os.path.normpath on components: a '..' removes the component before it
normpath(path) == NormInto(<<>>, path)

CommonLen(a, b) ==
    MaxOr({k \in 0..Min(Len(a), Len(b)) : SubSeq(a, 1, k) = SubSeq(b, 1, k)}, 0)

RelString(r) == IF r = <<>> THEN <<".">> ELSE Join(r, "/")

RelJoin(p, s, c) == RelString([k \in 1..(Len(s) - c) |-> DOTDOT] \o SubSeq(p, c + 1, Len(p)))

RelFrom(p, s) == RelJoin(p, s, CommonLen(p, s))

\* os.path.relpath(path, start), as a string
relpath(path, start) == RelFrom(normpath(path), normpath(start))

(***************************************************************************)
(* URL normalizer: clean_url                                               *)
(***************************************************************************)
\* the characters that end group 2 of WAYBACK_PATTERN: [^\s"'<>]
UrlStop == {" ", "\"", "'", "<", ">"}

WAYBACK_PREFIX == <<"/","/","w","e","b",".","a","r","c","h","i","v","e",".","o","r","g","/","w","e","b","/">>

\* the number of leading characters of s that do not belong to cs
RunLenNot(s, cs) == MaxOr({k \in 0..Len(s) : \A j \in 1..k : s[j] \notin cs}, 0)

NoMatch == [ok |-> FALSE, len |-> 0, original |-> <<>>]

\* group 2 starts at g and holds n2 characters
WaybackGroup(s, g, n2) ==
    IF n2 >= 1 THEN [ok |-> TRUE, len |-> g + n2 - 1, original |-> SubSeq(s, g, g + n2 - 1)]
    ELSE NoMatch

\* the '/' before group 2 is expected at f
WaybackRest(s, f) ==
    IF Len(s) >= f /\ s[f] = "/" THEN WaybackGroup(s, f + 1, RunLenNot(From(s, f + 1), UrlStop))
    ELSE NoMatch

\* (?:[a-z]*_)? at e, where nl lower-case letters follow
WaybackSlash(s, e, nl) ==
    WaybackRest(s, IF Len(s) >= e + nl /\ s[e + nl] = "_" THEN e + nl + 1 ELSE e)

\* (\d+) at p, where nd digits follow
WaybackMod(s, p, nd) ==
    IF nd >= 1
    THEN WaybackSlash(s, p + nd, RunLen(From(s, p + nd), {LowerCase[i] : i \in 1..26}))
    ELSE NoMatch

\* //web.archive.org/web/ at p0
WaybackAt(s, p0) ==
    IF StartsWith(From(s, p0), WAYBACK_PREFIX)
    THEN WaybackMod(s, p0 + Len(WAYBACK_PREFIX),
                    RunLen(From(s, p0 + Len(WAYBACK_PREFIX)), Digits))
    ELSE NoMatch

\* WAYBACK_PATTERN matched at the start of s:
\*   (?:https?:)?//web\.archive\.org/web/(\d+)(?:[a-z]*_)?/(https?://[^\s"'<>]+|[^\s"'<>]+)
\* the result is [ok, len, original]: whether it matches, the length of the
\* match and group 2
WaybackMatch(s) ==
    WaybackAt(s, IF StartsWith(s, <<"h","t","t","p","s",":">>) THEN 7
                 ELSE IF StartsWith(s, <<"h","t","t","p",":">>) THEN 6 ELSE 1)

\* the replacement every use of WAYBACK_PATTERN makes: group 2, with
\* 'https://' put before it when it does not start with 'http'
WaybackOriginal(original) ==
    IF StartsWith(original, <<"h","t","t","p">>) THEN original ELSE HTTPS \o original

SKIP_SCHEMES == {<<"d","a","t","a",":">>, <<"j","a","v","a","s","c","r","i","p","t",":">>, <<"m","a","i","l","t","o",":">>, <<"t","e","l",":">>, <<"#">>, <<"a","b","o","u","t",":">>}

CleanMatched(url, m) ==
    IF m.ok THEN WaybackOriginal(m.original)
    ELSE IF StartsWith(url, <<"/","/">>) THEN <<"h","t","t","p","s",":">> \o url
    ELSE url

\* WaybackArchiver.clean_url
clean_url(url) ==
    IF url = <<>> THEN None
    ELSE IF StartsWithAny(url, SKIP_SCHEMES) THEN None
    ELSE CleanMatched(url, WaybackMatch(url))

\* url.startswith(('http://', 'https://'))
IsAbsolute(url) == StartsWith(url, HTTP) \/ StartsWith(url, HTTPS)

(***************************************************************************)
(* Path mapper: url_to_local_path, convert_php_url_to_html_path            *)
(***************************************************************************)
\* lines 204-209, for the stripped path: index.html for a directory
BasePathOf(path) ==
    IF path = <<>> THEN INDEX_HTML
    ELSE IF EndsWith(path, <<"/">>) THEN path \o INDEX_HTML
    ELSE IF ~Contains(AfterLast(path, "/"), <<".">>) THEN path \o <<"/">> \o INDEX_HTML
    ELSE path

\* lines 202-209: parsed.path.strip('/'), with index.html for a directory
BasePath(rawpath) == BasePathOf(Strip(rawpath, "/"))

\* re.sub(r'[^\w\-]', '_', action), then <base_dir>/<action_clean>.html or
\* <action_clean>.html
ActionFile(base_dir, action) ==
    IF base_dir # <<>> THEN base_dir \o <<"/">> \o SanitizeAction(action) \o DOT_HTML
    ELSE SanitizeAction(action) \o DOT_HTML

\* path[:-4] + '.html' when the path ends with .php
PhpToHtmlExt(path) ==
    IF EndsWith(path, DOT_PHP) THEN SubSeq(path, 1, Len(path) - 4) \o DOT_HTML ELSE path

\* lines 230-232: f"{base}_{query_hash}{ext}" for (base, ext) = splitext(path)
HashedPath(be, query) == be[1] \o <<"_">> \o md5_hex8(query) \o be[2]

\* whether line 216 takes the index.php?action=X branch
IsDispatchPath(path, params) == HasAction(params) /\ EndsWith(path, DOT_PHP)

\* lines 213-232, for a non-empty query
QueryPathOf(path, query, params) ==
    IF IsDispatchPath(path, params) THEN ActionFile(dirname(path), FirstAction(params))
    ELSE HashedPath(splitext(path), query)

\* lines 212-232
QueryPath(path, query) ==
    IF query = <<>> THEN path ELSE QueryPathOf(path, query, parse_qs(query))

\* lines 202-236
LocalPathOf(parsed) == PhpToHtmlExt(QueryPath(BasePath(parsed.path), parsed.query))

\* the string url_to_local_path joins to output_dir
LocalPathString(url) == LocalPathOf(urlparse(url))

\* WaybackArchiver.url_to_local_path: the Path it returns
url_to_local_path(url) == PathJoin(ARCHIVE_DIR, LocalPathString(url))

\* the key of php_to_html: f"{parsed.path}?action={action}"
PhpPattern(path, action) == path \o <<"?">> \o ACTION_KEY \o <<"=">> \o action

\* the dict m with m[k] = v
MapPut(m, k, v) == [x \in DOMAIN m \cup {k} |-> IF x = k THEN v ELSE m[x]]

\* lines 226-227, when the dispatch branch is taken
CachePutAction(php, rawpath, path, action) ==
    MapPut(php, PhpPattern(rawpath, action), ActionFile(dirname(path), action))

CacheAfterOf(php, rawpath, path, params) ==
    IF IsDispatchPath(path, params)
    THEN CachePutAction(php, rawpath, path, FirstAction(params))
    ELSE php

CacheAfter(php, parsed) ==
    IF parsed.query = <<>> THEN php
    ELSE CacheAfterOf(php, parsed.path, BasePath(parsed.path), parse_qs(parsed.query))

\* self.php_to_html after url_to_local_path(url) ran with the cache php
php_to_html_after(php, url) == CacheAfter(php, urlparse(url))

\* a converter that gives no path to a URL without an action
ConvertNothing(path) == None

\* path[:-4] + '.html', or None: lines 264-268
ConvertSimple(path) ==
    IF EndsWith(path, DOT_PHP) THEN SubSeq(path, 1, Len(path) - 4) \o DOT_HTML ELSE None

\* lines 255-262
ConvertLookup(php, k, path, action) ==
    IF k \in DOMAIN php THEN php[k] ELSE ActionFile(dirname(Strip(path, "/")), action)

ConvertAction(php, path, action) == ConvertLookup(php, PhpPattern(path, action), path, action)

\* lines 251-262
ConvertQuery(php, path, params) ==
    IF HasAction(params) THEN ConvertAction(php, path, FirstAction(params))
    ELSE ConvertSimple(path)

ConvertParsed(php, parsed) ==
    IF parsed.query # <<>> /\ EndsWith(parsed.path, DOT_PHP)
    THEN ConvertQuery(php, parsed.path, parse_qs(parsed.query))
    ELSE ConvertSimple(parsed.path)

\* WaybackArchiver.convert_php_url_to_html_path, reading the cache php
convert_php_url_to_html_path(php, url) ==
    IF url = <<>> THEN None ELSE ConvertParsed(php, urlparse(url))

(***************************************************************************)
(* urllib.parse.urljoin                                                    *)
(***************************************************************************)
RECURSIVE RemoveDots(_, _)
\* the loop of urljoin that resolves '.' and '..' segments
RemoveDots(acc, segs) ==
    IF segs = <<>> THEN acc
    ELSE IF Head(segs) = DOTDOT
         THEN RemoveDots(IF acc = <<>> THEN acc ELSE SubSeq(acc, 1, Len(acc) - 1), Tail(segs))
    ELSE IF Head(segs) = <<".">> THEN RemoveDots(acc, Tail(segs))
    ELSE RemoveDots(Append(acc, Head(segs)), Tail(segs))

\* urlunparse of (scheme, netloc, path, query, fragment)
urlunparse(scheme, netloc, path, query, fragment) ==
    (IF scheme # <<>> THEN scheme \o <<":">> ELSE <<>>)
    \o (IF netloc # <<>> THEN <<"/","/">> \o netloc ELSE <<>>)
    \o (IF netloc # <<>> /\ path # <<>> /\ Head(path) # "/" THEN <<"/">> ELSE <<>>)
    \o path
    \o (IF query # <<>> THEN <<"?">> \o query ELSE <<>>)
    \o (IF fragment # <<>> THEN <<"#">> \o fragment ELSE <<>>)

IsNonBlank(s) == s # <<>>

\* segments[1:-1] = filter(None, segments[1:-1])
MidFilter(segs) ==
    IF Len(segs) >= 2
    THEN <<segs[1]>> \o SelectSeq(SubSeq(segs, 2, Len(segs) - 1), IsNonBlank)
         \o <<segs[Len(segs)]>>
    ELSE segs

\* a last segment '.' or '..' leaves a trailing slash
TrailDot(res, last) == IF last \in {<<".">>, DOTDOT} THEN Append(res, <<>>) ELSE res

PathOrSlash(p) == IF p = <<>> THEN <<"/">> ELSE p

JoinResolved(mid) == PathOrSlash(Join(TrailDot(RemoveDots(<<>>, mid), mid[Len(mid)]), "/"))

\* the directory of the base path: its segments without the last one
BaseDir(bp) == IF bp[Len(bp)] # <<>> THEN SubSeq(bp, 1, Len(bp) - 1) ELSE bp

\* the path urljoin gives for the base path bpath and the reference path upath
JoinPath(bpath, upath) ==
    JoinResolved(MidFilter(IF StartsWith(upath, <<"/">>) THEN Split(upath, "/")
                           ELSE BaseDir(Split(bpath, "/")) \o Split(upath, "/")))

UrlJoinParsed(base, url, b, u) ==
    IF u.scheme # <<>> /\ u.scheme # b.scheme THEN url
    ELSE IF u.netloc # <<>> THEN urlunparse(b.scheme, u.netloc, u.path, u.query, u.fragment)
    ELSE IF u.path = <<>>
         THEN urlunparse(b.scheme, b.netloc, b.path,
                         IF u.query # <<>> THEN u.query ELSE b.query, u.fragment)
    ELSE urlunparse(b.scheme, b.netloc, JoinPath(b.path, u.path), u.query, u.fragment)

\* urllib.parse.urljoin(base, url)
urljoin(base, url) ==
    IF url = <<>> THEN base ELSE UrlJoinParsed(base, url, urlparse(base), urlparse(url))

\* f"{parsed_base.scheme}://{parsed_base.netloc}{clean}"
RootOf(parsed_base, clean) ==
    parsed_base.scheme \o <<":","/","/">> \o parsed_base.netloc \o clean

\* lines 346-350, 712-716: a cleaned reference made absolute against the page
ResolveAgainst(clean, base_url) ==
    IF IsAbsolute(clean) THEN clean
    ELSE IF StartsWith(clean, <<"/">>) THEN RootOf(urlparse(base_url), clean)
    ELSE urljoin(base_url, clean)

(***************************************************************************)
(* Pages.  A page is the sequence of its reference-bearing elements; an    *)
(* element is [tag, attr, value, id, class, toolbar]: one URL attribute,   *)
(* the id and the class of the element or of the element that encloses it, *)
(* and whether it lies between the WAYBACK TOOLBAR INSERT comments.        *)
(***************************************************************************)
Elem(tag, attr, value) ==
    [tag |-> tag, attr |-> attr, value |-> value, id |-> <<>>, class |-> <<>>,
     toolbar |-> FALSE]

\* self.domain in url or f'www.{self.domain}' in url
IsOurDomain(url) == Contains(url, DOMAIN_NAME) \/ Contains(url, WWW_DOMAIN)

(***************************************************************************)
(* Link rewriter: rewrite_html_links                                       *)
(***************************************************************************)
REWRITE_URL_ATTRS ==
    {<<"a", "href">>, <<"link", "href">>, <<"script", "src">>, <<"img", "src">>,
     <<"source", "src">>, <<"video", "src">>, <<"video", "poster">>, <<"audio", "src">>,
     <<"iframe", "src">>, <<"object", "data">>, <<"embed", "src">>}

\* lines 394-397: ids ^wm-|^playback|^donato and classes ^wm-|^wb-, ignoring case
IsWaybackElementRewrite(e) ==
    \/ StartsWithAny(Lower(e.id), {<<"w","m","-">>, <<"p","l","a","y","b","a","c","k">>, <<"d","o","n","a","t","o">>})
    \/ StartsWithAny(Lower(e.class), {<<"w","m","-">>, <<"w","b","-">>})

\* lines 400-411: scripts and links that refer to the archive host
IsArchiveScriptOrLink(e) ==
    \/ e.tag = "script" /\ e.attr = "src"
       /\ (Contains(e.value, ARCHIVE_ORG) \/ Contains(e.value, <<"w","o","m","b","a","t">>))
    \/ e.tag = "link" /\ e.attr = "href" /\ Contains(e.value, ARCHIVE_ORG)

\* the elements rewrite_html_links keeps: lines 393-411
KeptOnRewrite(e) == ~IsWaybackElementRewrite(e) /\ ~IsArchiveScriptOrLink(e)

\* os.path.relpath(self.output_dir / s.lstrip('/'), page_path.parent)
RelativeToPage(s, page_path) ==
    relpath(PathJoin(ARCHIVE_DIR, LStrip(s, "/")), Parent(page_path))

\* lines 443-452: a reference to the target site that is not in the table
RewriteOurs(clean, html_path, page_path) ==
    IF html_path # None /\ html_path # <<>> THEN RelativeToPage(html_path, page_path)
    ELSE PathOrSlash(urlparse(clean).path)

\* lines 433-455
RewriteClean(v, clean, page_path, utl, php) ==
    IF clean = None THEN v
    ELSE IF clean \in DOMAIN utl THEN relpath(utl[clean], Parent(page_path))
    ELSE IF IsOurDomain(clean)
         THEN RewriteOurs(clean, convert_php_url_to_html_path(php, clean), page_path)
    ELSE clean

\* lines 425-455: the attribute pass
RewriteKnown(e, v, page_path, utl, php) ==
    IF <<e.tag, e.attr>> \notin REWRITE_URL_ATTRS \/ v = <<>> THEN v
    ELSE RewriteClean(v, clean_url(v), page_path, utl, php)

PHP_ACTION_PREFIX == <<"i","n","d","e","x",".","p","h","p","?","a","c","t","i","o","n","=">>

\* the characters that end group 1 of PHP_ACTION_PATTERN: [^&\s"'<>]
ActionStop == UrlStop \cup {"&"}

\* the match that starts at j0 (0: no match): [ok, action]
PhpActionAt(s, j0) ==
    IF j0 = 0 THEN [ok |-> FALSE, action |-> <<>>]
    ELSE [ok |-> TRUE,
          action |-> SubSeq(From(s, j0 + Len(PHP_ACTION_PREFIX)), 1,
                            RunLenNot(From(s, j0 + Len(PHP_ACTION_PREFIX)), ActionStop))]

\* PHP_ACTION_PATTERN.search(s): index\.php\?action=([^&\s"'<>]+), the first
\* occurrence of the prefix that is followed by a character of the group
PhpActionSearch(s) ==
    PhpActionAt(s, MinOr({j \in Occurrences(s, PHP_ACTION_PREFIX) :
                             /\ Len(s) >= j + Len(PHP_ACTION_PREFIX)
                             /\ s[j + Len(PHP_ACTION_PREFIX)] \notin ActionStop}, 0))

\* lines 486-492: the directory of the link and the cleaned action
HrefActionFile(base_dir, action) ==
    IF base_dir # <<>> /\ base_dir # <<".">>
    THEN base_dir \o <<"/">> \o SanitizeAction(action) \o DOT_HTML
    ELSE SanitizeAction(action) \o DOT_HTML

\* lines 500-503: f"{php_part[:-4]}_{query_hash}.html"
HrefHashed(php_part, query_part) ==
    SubSeq(php_part, 1, Len(php_part) - 4) \o <<"_">> \o md5_hex8(query_part) \o DOT_HTML

\* lines 482-503, for the match m of PHP_ACTION_PATTERN
ConvertPhpHrefMatch(v, m) ==
    IF m.ok THEN HrefActionFile(dirname(Before(v, "?")), m.action)
    ELSE IF EndsWith(v, DOT_PHP) THEN SubSeq(v, 1, Len(v) - 4) \o DOT_HTML
    ELSE IF Contains(v, DOT_PHP \o <<"?">>) THEN HrefHashed(Before(v, "?"), Split(v, "?")[2])
    ELSE v

\* lines 474-503: relative dynamic-script links in href attributes
ConvertPhpHref(e, v) ==
    IF e.attr # "href" THEN v
    ELSE IF IsAbsolute(v) \/ StartsWithAny(v, {<<"#">>, <<"m","a","i","l","t","o",":">>, <<"t","e","l",":">>, <<"j","a","v","a","s","c","r","i","p","t",":">>})
         THEN v
    ELSE ConvertPhpHrefMatch(v, PhpActionSearch(v))

\* lines 505-512 and 586-617: a root-absolute path made relative to the page
RootToRelative(e, v, page_path, attrs) ==
    IF e.attr \in attrs /\ StartsWith(v, <<"/">>) /\ ~StartsWith(v, <<"/","/">>)
    THEN RelativeToPage(v, page_path)
    ELSE v

\* lines 514-518: src attributes that name a .php file
ConvertPhpSrc(e, v) ==
    IF e.attr = "src" /\ EndsWith(v, DOT_PHP) THEN SubSeq(v, 1, Len(v) - 4) \o DOT_HTML ELSE v

\* lines 525-529, for the match m of PHP_ACTION_PATTERN
FormActionMatch(v, m) == IF m.ok THEN SanitizeAction(m.action) \o DOT_HTML ELSE v

\* lines 520-529: form actions
ConvertPhpFormAction(e, v) ==
    IF e.tag = "form" /\ e.attr = "action"
    THEN IF EndsWith(v, DOT_PHP) THEN SubSeq(v, 1, Len(v) - 4) \o DOT_HTML
         ELSE FormActionMatch(v, PhpActionSearch(v))
    ELSE v

\* lines 538 and 551: the remainder names a local .html file
LooksLocalHtml(e, remainder) ==
    \/ EndsWith(remainder, DOT_HTML)
    \/ Contains(remainder, DOT_HTML \o <<"?">>)
    \/ (e.attr = "href" /\ Contains(remainder, DOT_HTML \o <<"#">>))

\* lines 537-556, for remainder = v[2:]
FixRemainder(e, v, remainder) ==
    IF LooksLocalHtml(e, remainder) THEN remainder
    ELSE IF ~Contains(Before(remainder, "/"), <<".">>) THEN remainder
    ELSE <<"h","t","t","p","s",":">> \o v

\* lines 531-556 and 574-584: references that start with //
FixProtocolRelative(e, v) ==
    IF ~StartsWith(v, <<"/","/">>) THEN v
    ELSE IF e.attr \in {"href", "src"} THEN FixRemainder(e, v, From(v, 3))
    ELSE IF e.attr \in {"action", "data", "poster"} THEN <<"h","t","t","p","s",":">> \o v
    ELSE v

\* ^https?://[^/]+\.html$ for the text rest after the scheme
MatchesHostHtml(rest) ==
    ~Contains(rest, <<"/">>) /\ EndsWith(rest, DOT_HTML) /\ Len(rest) > Len(DOT_HTML)

\* ^https?://[^/]+\.html\? for the text rest after the scheme
MatchesHostHtmlQuery(rest) ==
    \E j \in Occurrences(Before(rest, "/"), DOT_HTML \o <<"?">>) : j >= 2

\* lines 562-572, for the text rest after the scheme
FixMalformedRest(e, v, rest) ==
    IF \/ e.attr = "href" /\ (MatchesHostHtml(rest) \/ MatchesHostHtmlQuery(rest))
       \/ e.attr = "src" /\ MatchesHostHtml(rest)
    THEN From(v, RFind(v, <<":","/","/">>) + 3)
    ELSE v

\* lines 558-572: values of the shape https://name.html
FixMalformedLocal(e, v) ==
    IF StartsWith(v, HTTP) THEN FixMalformedRest(e, v, From(v, Len(HTTP) + 1))
    ELSE IF StartsWith(v, HTTPS) THEN FixMalformedRest(e, v, From(v, Len(HTTPS) + 1))
    ELSE v

\* str.split() of a text without tabs and line ends: the pieces between blanks
Words(s) == SelectSeq(Split(s, " "), IsNonBlank)

RECURSIVE JoinWith(_, _)
\* sep.join(parts)
JoinWith(parts, sep) ==
    IF parts = <<>> THEN <<>>
    ELSE IF Len(parts) = 1 THEN parts[1]
    ELSE parts[1] \o sep \o JoinWith(Tail(parts), sep)

\* part.strip().split() for every part of srcset.split(',')
SrcsetParts(pieces) == [i \in 1..Len(pieces) |-> Words(pieces[i])]

\* lines 463-470: the URL of a candidate, for clean = clean_url(url)
SrcsetUrl(url, clean, page_path, utl) ==
    IF clean # None /\ clean # <<>> /\ clean \in DOMAIN utl
    THEN relpath(utl[clean], Parent(page_path))
    ELSE IF clean # None /\ clean # <<>> THEN clean
    ELSE url

\* lines 461-471: one candidate, its URL replaced and its words joined by blanks
SrcsetCandidate(parts, page_path, utl) ==
    JoinWith([parts EXCEPT ![1] = SrcsetUrl(parts[1], clean_url(parts[1]), page_path, utl)],
             <<" ">>)

\* lines 459-472, for the candidates that have words
SrcsetJoined(cands, page_path, utl) ==
    JoinWith([i \in 1..Len(cands) |-> SrcsetCandidate(cands[i], page_path, utl)], <<",", " ">>)

\* lines 457-472: the first srcset pass
RewriteSrcset(e, v, page_path, utl) ==
    IF e.attr # "srcset" THEN v
    ELSE SrcsetJoined(SelectSeq(SrcsetParts(Split(v, ",")), IsNonBlank), page_path, utl)

\* lines 626-633: the URL of a candidate in the second srcset pass
SrcsetRootUrl(url, page_path) ==
    IF StartsWith(url, <<"/","/">>) THEN <<"h","t","t","p","s",":">> \o url
    ELSE IF StartsWith(url, <<"/">>) THEN RelativeToPage(url, page_path)
    ELSE url

\* lines 624-634: one candidate; a part without words is kept as ''
SrcsetRootCandidate(parts, page_path) ==
    IF parts = <<>> THEN <<>>
    ELSE JoinWith([parts EXCEPT ![1] = SrcsetRootUrl(parts[1], page_path)], <<" ">>)

SrcsetRootJoined(cands, page_path) ==
    JoinWith([i \in 1..Len(cands) |-> SrcsetRootCandidate(cands[i], page_path)], <<",", " ">>)

\* lines 619-635: the second srcset pass
FixSrcset(e, v, page_path) ==
    IF e.attr # "srcset" THEN v
    ELSE SrcsetRootJoined(SrcsetParts(Split(v, ",")), page_path)

\* lines 647-654, for clean = clean_url(url)
StyleClean(url, clean, page_path, utl) ==
    IF clean = None \/ clean = <<>> THEN url
    ELSE IF clean \in DOMAIN utl THEN relpath(utl[clean], Parent(page_path))
    ELSE clean

\* lines 640-654: replace_css_url for the reference url of an inline style
StyleReplaceUrl(url, page_path, utl) ==
    IF StartsWith(url, <<"/">>) /\ ~StartsWith(url, <<"/","/">>)
    THEN RelativeToPage(url, page_path)
    ELSE StyleClean(url, clean_url(url), page_path, utl)

\* a style attribute, or the text of a <style> element
IsStyleText(e) == e.attr = "style" \/ (e.tag = "style" /\ e.attr = "string")

\* lines 656-662: the url() reference of a style attribute or of a <style>
\* block, the value of the element being the reference of its url()
RewriteStyle(e, v, page_path, utl) ==
    IF IsStyleText(e) /\ v # <<>> THEN StyleReplaceUrl(v, page_path, utl) ELSE v

\* the passes of lines 474-617 on the value v the attribute and srcset passes left
RewriteLater(e, v, page_path) ==
    RootToRelative(e,
        FixMalformedLocal(e,
            FixProtocolRelative(e,
                ConvertPhpFormAction(e,
                    ConvertPhpSrc(e,
                        RootToRelative(e, ConvertPhpHref(e, v), page_path, {"href"}))))),
        page_path, {"src", "action", "data", "poster"})

\* the value rewrite_html_links leaves in the attribute of element e on the
\* page stored at page_path: the passes of lines 425-662 in the order of the code
RewriteValue(e, page_path, utl, php) ==
    RewriteStyle(e,
        FixSrcset(e,
            RewriteLater(e,
                RewriteSrcset(e, RewriteKnown(e, e.value, page_path, utl, php),
                              page_path, utl),
                page_path),
            page_path),
        page_path, utl)

\* the kept elements with their attributes rewritten
RewriteAll(kept, page_path, utl, php) ==
    [i \in 1..Len(kept) |->
        [kept[i] EXCEPT !.value = RewriteValue(kept[i], page_path, utl, php)]]

\* WaybackArchiver.rewrite_html_links
rewrite_html_links(html, page_path, utl, php) ==
    RewriteAll(SelectSeq(html, KeptOnRewrite), page_path, utl, php)

(***************************************************************************)
(* Artifact stripper and extractors: strip_wayback_artifacts,              *)
(* extract_and_clean_urls, extract_page_links                              *)
(***************************************************************************)
\* the first position of s at which WAYBACK_PATTERN matches, 0 when none
FirstWayback(s) == MinOr({j \in 1..Len(s) : WaybackMatch(From(s, j)).ok}, 0)

RECURSIVE WaybackSub(_)
\* the match m at position j replaced, and the text after it substituted in turn
WaybackSubMatch(s, j, m) ==
    SubSeq(s, 1, j - 1) \o WaybackOriginal(m.original) \o WaybackSub(From(s, j + m.len))

WaybackSubAt(s, j) == IF j = 0 THEN s ELSE WaybackSubMatch(s, j, WaybackMatch(From(s, j)))

\* WAYBACK_PATTERN.sub(replace_wayback_url, s): lines 303-309, 669, 870-873
WaybackSub(s) == WaybackSubAt(s, FirstWayback(s))

\* lines 273-294: the toolbar block, scripts whose src names archive.org or
\* wombat and link elements whose href names archive.org, ignoring case
IsStrippedArtifact(e) ==
    \/ e.toolbar
    \/ e.tag = "script" /\ e.attr = "src"
       /\ (Contains(Lower(e.value), ARCHIVE_ORG) \/ Contains(Lower(e.value), <<"w","o","m","b","a","t">>))
    \/ e.tag = "link" /\ e.attr = "href" /\ Contains(Lower(e.value), ARCHIVE_ORG)

KeptOnStrip(e) == ~IsStrippedArtifact(e)

UnwrapAll(kept) == [i \in 1..Len(kept) |-> [kept[i] EXCEPT !.value = WaybackSub(kept[i].value)]]

\* WaybackArchiver.strip_wayback_artifacts
strip_wayback_artifacts(html) == UnwrapAll(SelectSeq(html, KeptOnStrip))

EXTRACT_URL_ATTRS == REWRITE_URL_ATTRS \cup {<<"form", "action">>}

\* lines 319-322: ids ^wm-|^playback and classes ^wm-, ignoring case
IsWaybackElementExtract(e) ==
    \/ StartsWithAny(Lower(e.id), {<<"w","m","-">>, <<"p","l","a","y","b","a","c","k">>})
    \/ StartsWith(Lower(e.class), <<"w","m","-">>)

\* lines 344-351 and 708-716: the cleaned value made absolute, None when
\* clean_url gave nothing
ResolveClean(clean, base_url) ==
    IF clean = None THEN None ELSE ResolveAgainst(clean, base_url)

\* the absolute URL the reference value on the page base_url stands for
LinkTarget(value, base_url) == ResolveClean(clean_url(value), base_url)

\* WaybackArchiver.extract_and_clean_urls, for the attributes of lines 329-351
extract_and_clean_urls(html, base_url) ==
    {LinkTarget(html[i].value, base_url) :
        i \in {k \in 1..Len(html) : /\ ~IsWaybackElementExtract(html[k])
                                     /\ <<html[k].tag, html[k].attr>> \in EXTRACT_URL_ATTRS
                                     /\ html[k].value # <<>>}}
    \ {None}

\* os.path.splitext(parsed.path)[1].lower() in ASSET_EXTENSIONS
HasAssetExtension(url) == Lower(splitext(urlparse(url).path)[2]) \in ASSET_EXTENSIONS

\* a link filter without the test of the extension
AnySiteLink(clean) == IsOurDomain(clean)

\* lines 718-724: a link of the target site that is not an asset
IsPageLink(clean) == IsOurDomain(clean) /\ ~HasAssetExtension(clean)

PAGE_LINK_SKIP == {<<"m","a","i","l","t","o",":">>, <<"t","e","l",":">>, <<"j","a","v","a","s","c","r","i","p","t",":">>, <<"#">>, <<"d","a","t","a",":">>}

\* WaybackArchiver.extract_page_links
extract_page_links(html, base_url) ==
    {u \in ({LinkTarget(html[i].value, base_url) :
                i \in {k \in 1..Len(html) : /\ html[k].tag = "a" /\ html[k].attr = "href"
                                             /\ ~StartsWithAny(html[k].value, PAGE_LINK_SKIP)}}
            \ {None}) : IsPageLink(u)}

\* c.join of s.split(p): str.replace(p, '')
RECURSIVE RemoveAll(_, _)
RemoveAllAt(s, p, j) ==
    IF j = 0 THEN s ELSE SubSeq(s, 1, j - 1) \o RemoveAll(From(s, j + Len(p)), p)

RemoveAll(s, p) == RemoveAllAt(s, p, Find(s, p))

\* lines 790-791: rstrip('/') and the schemes and 'www.' removed
NormalizedMain(url) ==
    RemoveAll(RemoveAll(RemoveAll(RStrip(url, "/"), HTTP), HTTPS), <<"w","w","w",".">>)

\* lines 673-687: replace_url for the reference url of a stylesheet at css_path
CssClean(url, clean, css_path, utl) ==
    IF clean = None THEN url
    ELSE IF clean \in DOMAIN utl THEN relpath(utl[clean], Parent(css_path))
    ELSE clean

CssReplaceUrl(url, css_path, utl) ==
    IF StartsWith(url, <<"/">>) /\ ~StartsWith(url, <<"/","/">>)
    THEN RelativeToPage(url, css_path)
    ELSE CssClean(url, clean_url(url), css_path, utl)

\* WaybackArchiver.rewrite_css, a stylesheet being the sequence of its url() references
rewrite_css(css, css_path, utl) ==
    [i \in 1..Len(css) |-> CssReplaceUrl(WaybackSub(css[i]), css_path, utl)]

(***************************************************************************)
(* State                                                                   *)
(***************************************************************************)
VARIABLES
    pc,                   \* the position of archive(): start, discover, filter, assets,
                          \* rewrite, css, js, index, done; aborted when an exception
                          \* left archive()
    site,                 \* which archived site the archive host serves in this run
    snapshot_timestamp,   \* self.snapshot_timestamp
    index_queries,        \* history: the number of queries get_all_pages sent to the index
    index_rows,           \* history: the rows (URL, timestamp) of HTML pages the index
                          \* returned to those queries
    downloaded_urls,      \* self.downloaded_urls: the cache keys of download_content
    url_to_local,         \* self.url_to_local: original URL -> local Path
    php_to_html,          \* self.php_to_html: dispatch pattern -> local file name
    pages_to_download,    \* archive(): URL -> timestamp
    pages_queue,          \* archive(): the discovery queue of (URL, timestamp)
    downloaded_pages,     \* archive(): the URLs fetched as pages
    page_count,           \* archive(): the number of pages fetched
    html_pages,           \* archive(): local path -> (html, original URL), in insertion order
    all_asset_urls,       \* archive(): the asset set
    main_page_local_path, \* archive(): the local path of the entry page
    assets_to_download,   \* archive(): the asset list handed to the pool
    futures,              \* the pool: asset URL -> pending, or the result of its task
    rewritten,            \* the number of entries of html_pages already rewritten
    workers,              \* the pool: asset URL -> the worker thread its task started on
    touched,              \* history: the threads that used downloaded_urls (cache) and
                          \* url_to_local (table) while the pool was open
    files,                \* the output tree: local path -> content
    requests,             \* history: original URL -> number of requests sent to the archive
    failed,               \* history: the URLs whose request failed
    faults,               \* history: the number of responses that were not a 200 with a body
    last_call,            \* history: the last call of download_content
    enqueued,             \* history: URL -> number of times it was put on the queue
    popped,               \* history: URL -> number of times it was popped from the queue
    page_links,           \* history: the URLs extract_page_links returned
    page_fetches,         \* history: the URLs the discovery loop asked download_content for
    p_url,                \* PathSpec: the URL u the link refers to
    p_page,               \* PathSpec: the URL of the page that holds the link
    p_elem,               \* PathSpec: the link as it is written on the page
    p_out,                \* PathSpec: the value rewrite_html_links wrote
    p_conv,               \* PathSpec: what convert_php_url_to_html_path returned
    p_again,              \* RefSpec: the value a second rewrite_html_links wrote
    u_in,                 \* UrlSpec: the reference as it is written
    u_clean,              \* UrlSpec: clean_url(u_in)
    u_again,              \* UrlSpec: clean_url(clean_url(u_in))
    u_path,               \* UrlSpec: url_to_local_path(clean_url(u_in))
    u_conv,               \* UrlSpec: convert_php_url_to_html_path(clean_url(u_in))
    e_soup,               \* EditSpec: the parsed document of the page being edited
    e_files,              \* EditSpec: the publish directory: file name -> text
    e_ret                 \* EditSpec: the last editing call and what it returned

indexVars == <<index_queries, index_rows>>

tableVars == <<url_to_local, php_to_html>>

pathVars == <<p_url, p_page, p_elem, p_out, p_conv, p_again>>

fetchVars == <<downloaded_urls, requests, failed, faults, last_call>>

queueVars == <<pages_to_download, pages_queue, downloaded_pages, page_count, enqueued,
               popped, page_links, page_fetches>>

pageVars == <<html_pages, all_asset_urls, main_page_local_path>>

outputVars == <<assets_to_download, futures, rewritten, files>>

poolVars == <<workers, touched>>

urlVars == <<u_in, u_clean, u_again, u_path, u_conv>>

editVars == <<e_soup, e_files, e_ret>>

vars == <<pc, site, snapshot_timestamp, indexVars, tableVars, fetchVars, queueVars, pageVars,
          outputVars, poolVars, pathVars, urlVars, editVars>>

\* a result that has not been computed yet
Pending == <<"<pending>">>

\* the empty dict
EmptyMap == [x \in {} |-> <<>>]

\* dict.get(k, 0)
Count(m, k) == IF k \in DOMAIN m THEN m[k] ELSE 0

\* the state of a WaybackArchiver after __init__, before archive() runs, and
\* of the history of the run
InitArchiver ==
    /\ pc = "start"
    /\ snapshot_timestamp = None
    /\ index_queries = 0
    /\ index_rows = {}
    /\ downloaded_urls = {}
    /\ url_to_local = EmptyMap
    /\ php_to_html = EmptyMap
    /\ pages_to_download = EmptyMap
    /\ pages_queue = <<>>
    /\ downloaded_pages = {}
    /\ page_count = 0
    /\ html_pages = <<>>
    /\ all_asset_urls = {}
    /\ main_page_local_path = None
    /\ assets_to_download = {}
    /\ futures = EmptyMap
    /\ rewritten = 0
    /\ workers = EmptyMap
    /\ touched = [cache |-> {}, table |-> {}]
    /\ files = EmptyMap
    /\ requests = EmptyMap
    /\ failed = {}
    /\ faults = 0
    /\ last_call = [n |-> 0, key |-> None, requested |-> FALSE, status |-> "none"]
    /\ enqueued = EmptyMap
    /\ popped = EmptyMap
    /\ page_links = {}
    /\ page_fetches = {}

archiverVars == <<pc, snapshot_timestamp, indexVars, tableVars, fetchVars, queueVars, pageVars, outputVars>>

(***************************************************************************)
(* The archive host: the archived sites it can serve and its responses     *)
(***************************************************************************)
SITE == HTTP \o WWW_DOMAIN

EVENTS_URL == SITE \o <<"/","i","n","d","e","x",".","p","h","p","?","a","c","t","i","o","n","=","e","v","e","n","t","s">>

STYLE_URL == SITE \o <<"/","s","t","y","l","e",".","c","s","s">>

DONATE_URL == SITE \o <<"/","d","o","n","a","t","e",".","h","t","m","l">>

\* a page of another host whose path names the domain
LOOKALIKE_URL == <<"h","t","t","p",":","/","/","e","x","a","m","p","l","e",".","c","o","m","/","c","c","s","p","a","c","e",".","o","r","g">>

\* a URL of another host
FOREIGN_URL == <<"h","t","t","p",":","/","/","e","x","a","m","p","l","e",".","o","r","g","/">>

\* a capture time of the same day that is not the snapshot's
OTHER_TIMESTAMP == <<"2","0","1","7","0","5","0","9","0","0","0","0","0","0">>

\* a replay URL of the archive host that wraps url
Wrapped(url) == <<"h","t","t","p","s",":">> \o WAYBACK_PREFIX \o SNAPSHOT_TIMESTAMP \o <<"/">> \o url

\* an element the archive host injected, carrying the id of its toolbar
Injected(e) == [e EXCEPT !.id = <<"w","m","-","i","p","p","-","b","a","s","e">>]

\* the small site: the entry page links to a dispatch page, a stylesheet, a
\* page of another host and, inside an injected element, a further page
SmallBody(url) ==
    IF url = SNAPSHOT_URL
    THEN <<Elem("a", "href", <<"/","i","n","d","e","x",".","p","h","p","?","a","c","t","i","o","n","=","e","v","e","n","t","s">>),
           Elem("a", "href", <<"/","s","t","y","l","e",".","c","s","s">>),
           Elem("a", "href", LOOKALIKE_URL),
           Injected(Elem("a", "href", Wrapped(DONATE_URL))),
           Elem("link", "href", <<"h","t","t","p","s",":","/","/","w","e","b",".","a","r","c","h","i","v","e",".","o","r","g","/","_","s","t","a","t","i","c","/","c","s","s","/","b","a","n","n","e","r","-","s","t","y","l","e","s",".","c","s","s">>)>>
    ELSE IF url = EVENTS_URL THEN <<Elem("a", "href", <<"/">>)>>
    ELSE IF url = DONATE_URL THEN <<Elem("a", "href", <<"/">>)>>
    ELSE IF url = STYLE_URL THEN <<<<"/","i","m","g","/","b","g",".","p","n","g">>, Wrapped(EVENTS_URL)>>
    ELSE <<>>

DigitChars == <<"0","1","2","3","4","5","6","7","8","9">>

RECURSIVE Decimal(_)
\* str(n)
Decimal(n) == IF n < 10 THEN <<DigitChars[n + 1]>>
              ELSE Decimal(n \div 10) \o <<DigitChars[(n % 10) + 1]>>

RECURSIVE ParseNat(_)
\* int(s)
ParseNat(s) ==
    IF s = <<>> THEN 0
    ELSE 10 * ParseNat(SubSeq(s, 1, Len(s) - 1))
         + (CHOOSE d \in 0..9 : DigitChars[d + 1] = s[Len(s)])

\* the number of pages of the link farm besides its entry page
FarmSize == 501

\* the URL of page n of the link farm
FarmUrl(n) == SITE \o <<"/","p">> \o Decimal(n)

\* page n of the link farm links to page n+1 and back to the entry page
FarmPage(n) ==
    IF n < FarmSize
    THEN <<Elem("a", "href", <<"/","p">> \o Decimal(n + 1)), Elem("a", "href", <<"/">>)>>
    ELSE <<Elem("a", "href", <<"/">>)>>

\* the link farm: /p1, /p2, ... each yielding a page not seen before
FarmBody(url) ==
    IF url = SNAPSHOT_URL THEN FarmPage(0)
    ELSE IF StartsWith(url, SITE \o <<"/","p">>) THEN FarmPage(ParseNat(From(url, Len(SITE) + 3)))
    ELSE <<>>

\* the entry page under its file name, and a stylesheet of another host that
\* has the path of the site's stylesheet
ROOT_INDEX_URL == SITE \o <<"/">> \o INDEX_HTML

CDN_STYLE_URL == <<"h","t","t","p","s",":","/","/","c","d","n",".","e","x","a","m","p","l","e",".","c","o","m","/","s","t","y","l","e",".","c","s","s">>

\* the twin site: the entry page links to itself under its file name and
\* holds the stylesheet of the site and the one of the other host
TwinBody(url) ==
    IF url = SNAPSHOT_URL
    THEN <<Elem("a", "href", <<"/">> \o INDEX_HTML),
           Elem("link", "href", <<"/","s","t","y","l","e",".","c","s","s">>),
           Elem("link", "href", CDN_STYLE_URL)>>
    ELSE IF url = ROOT_INDEX_URL THEN <<Elem("a", "href", <<"/">>)>>
    ELSE IF url = STYLE_URL THEN <<<<"/","i","m","g","/","b","g",".","p","n","g">>>>
    ELSE <<>>

\* what the archive host holds of site s for original_url
BodyOf(s, original_url) ==
    IF s = "farm" THEN FarmBody(original_url)
    ELSE IF s = "twin" THEN TwinBody(original_url)
    ELSE SmallBody(original_url)

\* response.text / response.content of a 200 response for original_url
ArchiveBody(original_url) == BodyOf(site, original_url)

\* the responses of the archive host: a 200 with a body, a 200 with an empty
\* body, and a failure (another status or an exception of the transport)
Responses == {"ok", "empty", "fail"}

\* at most this many responses of a run are not a 200 with a body
MaxFaults == 2

(***************************************************************************)
(* get_all_pages: the index of the archive and its answers                 *)
(***************************************************************************)
TEXT_HTML == <<"t","e","x","t","/","h","t","m","l">>

TEXT_CSS == <<"t","e","x","t","/","c","s","s">>

\* a capture time of the wide window, months before the snapshot
FAR_TIMESTAMP == <<"2","0","1","7","0","1","0","1","0","0","0","0","0","0">>

\* the first row of an answer names the fields (fl=original,timestamp,mimetype)
IndexHeader == <<<<"o","r","i","g","i","n","a","l">>, <<"t","i","m","e","s","t","a","m","p">>,
                 <<"m","i","m","e","t","y","p","e">>>>

\* session.get raised (lines 74, 111): no answer within the time allowed, or
\* no connection
IndexTimeout == [kind |-> "timeout", data |-> <<>>]

IndexRefused == [kind |-> "refused", data |-> <<>>]

\* an answer whose status is not 200
IndexStatus == [kind |-> "status", data |-> <<>>]

\* a 200 whose body is not JSON: response.json() raises (lines 87, 124)
IndexNotJson == [kind |-> "notjson", data |-> <<>>]

\* a 200 with an empty list, and one with the header row alone
IndexEmpty == [kind |-> "json", data |-> <<>>]

IndexHeaderOnly == [kind |-> "json", data |-> <<IndexHeader>>]

\* a 200 that lists the dispatch page at two capture times and a stylesheet
IndexEvents ==
    [kind |-> "json",
     data |-> <<IndexHeader,
                <<EVENTS_URL, FAR_TIMESTAMP, TEXT_HTML>>,
                <<EVENTS_URL, OTHER_TIMESTAMP, TEXT_HTML>>,
                <<STYLE_URL, SNAPSHOT_TIMESTAMP, TEXT_CSS>>>>]

\* a 200 that lists the dispatch page at the far capture time alone
IndexEventsFar ==
    [kind |-> "json", data |-> <<IndexHeader, <<EVENTS_URL, FAR_TIMESTAMP, TEXT_HTML>>>>]

\* a 200 that lists a URL of another host, in a row without a mimetype
IndexForeign ==
    [kind |-> "json", data |-> <<IndexHeader, <<FOREIGN_URL, SNAPSHOT_TIMESTAMP>>>>]

\* the answers of the index to one query
IndexResponses == {IndexTimeout, IndexRefused, IndexStatus, IndexNotJson, IndexEmpty,
                   IndexHeaderOnly, IndexEvents, IndexEventsFar, IndexForeign}

\* lines 74-87: the calls outside any try block that raise on this answer
Raises(response) == response.kind \in {"timeout", "refused", "notjson"}

\* lines 94, 130: row[2] if len(row) > 2 else ''
Mimetype(row) == IF Len(row) > 2 THEN row[3] ELSE <<>>

\* lines 97, 132: 'text/html' in mimetype or not mimetype
IsHtmlRow(mimetype) == Contains(mimetype, TEXT_HTML) \/ mimetype = <<>>

\* int(timestamp) of a 14-digit capture time, as (date, time of day): the
\* number is date * 10^6 + time
StampParts(timestamp) ==
    <<ParseNat(SubSeq(timestamp, 1, 8)), ParseNat(SubSeq(timestamp, 9, Len(timestamp)))>>

\* abs() of the number d * 10^6 + t with -10^6 < t < 10^6, as a pair of naturals
AbsParts(d, t) ==
    IF d > 0 /\ t < 0 THEN <<d - 1, t + 1000000>>
    ELSE IF d < 0 /\ t > 0 THEN <<-(d + 1), 1000000 - t>>
    ELSE <<IF d < 0 THEN -d ELSE d, IF t < 0 THEN -t ELSE t>>

\* abs(int(a) - int(b))
DistanceParts(a, b) == AbsParts(a[1] - b[1], a[2] - b[2])

\* abs(int(timestamp) - int(SNAPSHOT_TIMESTAMP))
Distance(timestamp) == DistanceParts(StampParts(timestamp), StampParts(SNAPSHOT_TIMESTAMP))

PartsLess(x, y) == x[1] < y[1] \/ (x[1] = y[1] /\ x[2] < y[2])

\* lines 101, 135: the new capture time is strictly closer to the snapshot
Closer(timestamp, stored) == PartsLess(Distance(timestamp), Distance(stored))

\* lines 92-102: one row of the answer is put into url_data, a dict kept here
\* as its items (URL, timestamp) in insertion order
UrlDataRow(url_data, row) ==
    IF ~IsHtmlRow(Mimetype(row)) THEN url_data
    ELSE IF \A j \in 1..Len(url_data) : url_data[j][1] # row[1]
    THEN Append(url_data, <<row[1], row[2]>>)
    ELSE [j \in 1..Len(url_data) |->
            IF url_data[j][1] = row[1] /\ Closer(row[2], url_data[j][2])
            THEN <<row[1], row[2]>> ELSE url_data[j]]

\* lines 90-102: for row in data[1:]
RECURSIVE UrlData(_, _, _)

UrlData(data, i, url_data) ==
    IF i > Len(data) THEN url_data
    ELSE UrlData(data, i + 1, UrlDataRow(url_data, data[i]))

\* lines 104-105: pages.append((ts, url)) for the items of url_data
PagesOf(url_data) == [j \in 1..Len(url_data) |-> <<url_data[j][2], url_data[j][1]>>]

\* lines 86-105: the pages one answer adds
QueryPages(response) ==
    IF response.kind = "json" /\ Len(response.data) > 1
    THEN PagesOf(UrlData(response.data, 2, <<>>))
    ELSE <<>>

IndexPages == [response \in IndexResponses |-> QueryPages(response)] @@ <<>>

\* the rows (URL, timestamp) of HTML pages in one answer
HtmlRows(response) ==
    IF response.kind = "json" /\ Len(response.data) > 1
    THEN {<<response.data[i][1], response.data[i][2]>> :
             i \in {j \in 2..Len(response.data) : IsHtmlRow(Mimetype(response.data[j]))}}
    ELSE {}

IndexRows == [response \in IndexResponses |-> HtmlRows(response)] @@ <<>>

\* lines 73-105: the two queries of the snapshot's day
NarrowWindow(d1, d2) ==
    IF Raises(d1) THEN [raised |-> TRUE, queries |-> 1, pages |-> <<>>, rows |-> {}]
    ELSE IF Raises(d2) THEN [raised |-> TRUE, queries |-> 2, pages |-> <<>>, rows |-> {}]
    ELSE [raised |-> FALSE, queries |-> 2, pages |-> IndexPages[d1] \o IndexPages[d2],
          rows |-> IndexRows[d1] \cup IndexRows[d2]]

\* lines 108-139: the two queries of the year, sent when the day gave no page
WideWindow(narrow, y1, y2) ==
    IF narrow.raised \/ narrow.pages # <<>> THEN narrow
    ELSE IF Raises(y1) THEN [raised |-> TRUE, queries |-> 3, pages |-> <<>>, rows |-> {}]
    ELSE IF Raises(y2) THEN [raised |-> TRUE, queries |-> 4, pages |-> <<>>, rows |-> {}]
    ELSE [raised |-> FALSE, queries |-> 4, pages |-> IndexPages[y1] \o IndexPages[y2],
          rows |-> IndexRows[y1] \cup IndexRows[y2]]

\* lines 64-142: what get_all_pages does when the index answers d1 and d2 to the
\* queries of the day and y1 and y2 to those of the year: the exception that
\* leaves it, or the rows (timestamp, URL) it returns
get_all_pages(d1, d2, y1, y2) == WideWindow(NarrowWindow(d1, d2), y1, y2)

\* the answers the index of the served site can give: any answer for the small
\* site; the index of the link farm lists a URL of another host
SiteResponses ==
    IF site = "farm" THEN {IndexForeign}
    ELSE IF site = "twin" THEN {IndexEmpty, IndexForeign}
    ELSE IndexResponses

\* lines 815-822: not of the archive host, and an asset by its extension or
\* of the target site
AssetCandidate(url) ==
    ~Contains(url, ARCHIVE_ORG) /\ (HasAssetExtension(url) \/ IsOurDomain(url))

\* lines 774-800 and 815-822: what archive() computes from original_url and
\* from the text html that strip_wayback_artifacts left of its response
PageOf(original_url, html) ==
    [html |-> html,
     local_path |-> url_to_local_path(original_url),
     cached |-> php_to_html_after(EmptyMap, original_url),
     is_main |-> NormalizedMain(original_url) = NormalizedMain(SNAPSHOT_URL),
     assets |-> extract_and_clean_urls(html, original_url),
     links |-> extract_page_links(html, original_url),
     ours |-> IsOurDomain(original_url),
     candidate |-> AssetCandidate(original_url)]

\* lines 780-781: the elements the parser finds in the text of original_url
\* (none in a stylesheet), without those strip_wayback_artifacts removes
StrippedPage(s, original_url) ==
    IF EndsWith(original_url, <<".","c","s","s">>) THEN <<>>
    ELSE strip_wayback_artifacts(BodyOf(s, original_url))

\* the URLs of U and the URLs their pages on site s refer to
WithTargets(s, U) ==
    U \cup UNION {PageOf(u, StrippedPage(s, u)).assets
                      \cup PageOf(u, StrippedPage(s, u)).links : u \in U}

\* the URLs a run on the small site can meet: those of the index and those
\* that the pages refer to
SmallUrls ==
    WithTargets("small", WithTargets("small", {SNAPSHOT_URL, EVENTS_URL, FOREIGN_URL}))

\* the URLs a run on the link farm can meet
FarmUrls ==
    WithTargets("farm", {SNAPSHOT_URL, FOREIGN_URL} \cup {FarmUrl(n) : n \in 1..FarmSize})

\* PageOf for every URL of the small site, computed once
SmallFetched == [u \in SmallUrls |-> PageOf(u, StrippedPage("small", u))] @@ <<>>

\* the URLs a run on the twin site can meet
TwinUrls == WithTargets("twin", WithTargets("twin", {SNAPSHOT_URL, FOREIGN_URL}))

\* PageOf for every URL of the twin site, computed once
TwinFetched == [u \in TwinUrls |-> PageOf(u, StrippedPage("twin", u))] @@ <<>>

\* PageOf for every URL of the link farm, computed once
FarmFetched == [u \in FarmUrls |-> PageOf(u, StrippedPage("farm", u))] @@ <<>>

\* what a run on the site at hand computes for original_url
Fetched(original_url) ==
    IF site = "farm" THEN FarmFetched[original_url]
    ELSE IF site = "twin" THEN TwinFetched[original_url]
    ELSE SmallFetched[original_url]

(***************************************************************************)
(* The content fetcher: download_content                                   *)
(***************************************************************************)
\* f"{timestamp}/{original_url}"
CacheKey(timestamp, original_url) == timestamp \o <<"/">> \o original_url

\* a fetcher that never finds a key in its cache
NeverCached(cache, key) == FALSE

\* cache_key in self.downloaded_urls
IsCached(cache, key) == key \in cache

\* what download_content returns: nothing on a cache hit and on a failure,
\* the empty text for a 200 without a body, the content otherwise
DownloadStatus(hit, o) ==
    IF hit \/ o = "fail" THEN "none" ELSE IF o = "empty" THEN "empty" ELSE "content"

\* download_content(timestamp, url), hit telling whether key is in the cache
\* and o being the response of the archive host when a request is sent
DownloadStep(key, url, o, hit) ==
    /\ IF hit THEN o = "ok" ELSE (o = "ok" \/ faults < MaxFaults)
    /\ downloaded_urls' = IF ~hit /\ o # "fail" THEN downloaded_urls \cup {key}
                          ELSE downloaded_urls
    /\ requests' = IF hit THEN requests ELSE MapPut(requests, url, Count(requests, url) + 1)
    /\ failed' = IF ~hit /\ o = "fail" THEN failed \cup {url} ELSE failed
    /\ faults' = IF ~hit /\ o # "ok" THEN faults + 1 ELSE faults
    /\ last_call' = [n |-> last_call.n + 1, key |-> key, requested |-> ~hit,
                     status |-> DownloadStatus(hit, o)]

(***************************************************************************)
(* archive(): seeding and the discovery loop                               *)
(***************************************************************************)
\* lines 742-744: the entry page is put first when the index did not list it
WithMainPage(pages) ==
    IF \E i \in 1..Len(pages) : pages[i] = <<SNAPSHOT_TIMESTAMP, SNAPSHOT_URL>>
    THEN pages ELSE <<<<SNAPSHOT_TIMESTAMP, SNAPSHOT_URL>>>> \o pages

\* the elements of a set of numbers in increasing order
SortedSeq(S) ==
    [n \in 1..Cardinality(S) |-> CHOOSE a \in S : Cardinality({b \in S : b < a}) = n - 1]

\* line 751: {url: ts for ts, url in pages}, a later row replacing the value
DictOfPages(pages) ==
    [u \in {pages[i][2] : i \in 1..Len(pages)} |->
        pages[MaxOr({j \in 1..Len(pages) : pages[j][2] = u}, 0)][1]]

\* the rows of pages at which a URL occurs for the first time
FirstRows(pages) ==
    SortedSeq({i \in 1..Len(pages) : \A j \in 1..(i - 1) : pages[j][2] # pages[i][2]})

ItemsAt(pages, rows, dict) ==
    [k \in 1..Len(rows) |-> <<pages[rows[k]][2], dict[pages[rows[k]][2]]>>]

\* line 762: list(pages_to_download.items()), in insertion order
DictItems(pages) == ItemsAt(pages, FirstRows(pages), DictOfPages(pages))

max_pages == 500

\* a discovery loop whose cap is compared with the wrong number
LoopCappedAtOne(queue, count) == queue # <<>> /\ count < 1

\* line 766: the condition of the discovery loop
LoopContinues(queue, count) == queue # <<>> /\ count < max_pages

\* lines 770-775: already fetched, or not of the target site
SkipPage(original_url, downloaded) ==
    original_url \in downloaded \/ ~Fetched(original_url).ours

\* every link is taken as new
AllLinks(links, downloaded, known) == links

\* line 802: the links that are neither fetched nor known
NewLinks(links, downloaded, known) == {l \in links : l \notin downloaded /\ l \notin known}

\* the orders in which a loop over a set can visit its elements
Orderings(S) ==
    {s \in [1..Cardinality(S) -> S] : \A i, j \in 1..Cardinality(S) : i # j => s[i] # s[j]}

\* html_pages[local_path] = (html, original_url)
DictPut(pages, local_path, html, original_url) ==
    IF \E i \in 1..Len(pages) : pages[i].path = local_path
    THEN [i \in 1..Len(pages) |->
            IF pages[i].path = local_path
            THEN [path |-> local_path, html |-> html, url |-> original_url]
            ELSE pages[i]]
    ELSE Append(pages, [path |-> local_path, html |-> html, url |-> original_url])

\* lines 731-764: the snapshot is fixed, the index is queried and the queue seeded
SeedWith(result, pages) ==
    /\ ~result.raised
    /\ pc' = "discover"
    /\ snapshot_timestamp' = SNAPSHOT_TIMESTAMP
    /\ index_queries' = result.queries
    /\ index_rows' = result.rows
    /\ pages_to_download' = DictOfPages(pages)
    /\ pages_queue' = DictItems(pages)
    /\ enqueued' = [u \in {pages[i][2] : i \in 1..Len(pages)} |-> 1]
    /\ UNCHANGED <<site, tableVars, fetchVars, downloaded_pages, page_count, popped,
                   page_links, page_fetches, pageVars, outputVars, pathVars, poolVars, urlVars, editVars>>

SeedFrom(result) == SeedWith(result, WithMainPage(result.pages))

Seed ==
    /\ pc = "start"
    /\ \E d1 \in SiteResponses, d2 \in SiteResponses, y1 \in SiteResponses,
          y2 \in SiteResponses : SeedFrom(get_all_pages(d1, d2, y1, y2))

\* lines 739, 938-941: an exception raised in get_all_pages is caught neither by
\* archive() nor by main(): the run ends there, with nothing written
AbortWith(result) ==
    /\ result.raised
    /\ pc' = "aborted"
    /\ snapshot_timestamp' = SNAPSHOT_TIMESTAMP
    /\ index_queries' = result.queries
    /\ index_rows' = result.rows
    /\ UNCHANGED <<site, tableVars, fetchVars, queueVars, pageVars, outputVars, pathVars, poolVars, urlVars, editVars>>

IndexAbort ==
    /\ pc = "start"
    /\ \E d1 \in SiteResponses, d2 \in SiteResponses, y1 \in SiteResponses,
          y2 \in SiteResponses : AbortWith(get_all_pages(d1, d2, y1, y2))

\* lines 767-775: the head of the queue is popped and skipped
PopSkip ==
    /\ pc = "discover"
    /\ LoopContinues(pages_queue, page_count)
    /\ SkipPage(Head(pages_queue)[1], downloaded_pages)
    /\ pages_queue' = Tail(pages_queue)
    /\ popped' = MapPut(popped, Head(pages_queue)[1], Count(popped, Head(pages_queue)[1]) + 1)
    /\ UNCHANGED <<pc, site, snapshot_timestamp, indexVars, tableVars, fetchVars, pages_to_download,
                   downloaded_pages, page_count, enqueued, page_links, page_fetches,
                   pageVars, outputVars, pathVars, poolVars, urlVars, editVars>>

\* lines 801-804: the new links are put on the queue, in the order the loop
\* over the set visits them
Enqueue(order) ==
    /\ pages_queue' = Tail(pages_queue)
                      \o [i \in 1..Len(order) |-> <<order[i], SNAPSHOT_TIMESTAMP>>]
    /\ pages_to_download' =
          [u \in DOMAIN pages_to_download \cup {order[i] : i \in 1..Len(order)} |->
              IF \E i \in 1..Len(order) : order[i] = u THEN SNAPSHOT_TIMESTAMP
              ELSE pages_to_download[u]]
    /\ enqueued' =
          [u \in DOMAIN enqueued \cup {order[i] : i \in 1..Len(order)} |->
              Count(enqueued, u) + Cardinality({i \in 1..Len(order) : order[i] = u})]

\* dict.update: the entries of added put into m
MapUpdate(m, added) ==
    [k \in DOMAIN m \cup DOMAIN added |-> IF k \in DOMAIN added THEN added[k] ELSE m[k]]

\* lines 779-804: the page is recorded, its assets and links are extracted
StorePage(original_url, page) ==
    /\ downloaded_pages' = downloaded_pages \cup {original_url}
    /\ page_count' = page_count + 1
    /\ html_pages' = DictPut(html_pages, page.local_path, page.html, original_url)
    /\ url_to_local' = MapPut(url_to_local, original_url, page.local_path)
    /\ php_to_html' = MapUpdate(php_to_html, page.cached)
    /\ main_page_local_path' =
          IF page.is_main THEN page.local_path ELSE main_page_local_path
    /\ all_asset_urls' = all_asset_urls \cup page.assets
    /\ page_links' = page_links \cup page.links
    /\ \E order \in Orderings(NewLinks(page.links, downloaded_pages \cup {original_url},
                                       DOMAIN pages_to_download)) : Enqueue(order)

\* lines 777-806, for the response o of the archive host
FetchPage(original_url, timestamp, o, hit) ==
    /\ DownloadStep(CacheKey(timestamp, original_url), original_url, o, hit)
    /\ page_fetches' = page_fetches \cup {original_url}
    /\ popped' = MapPut(popped, original_url, Count(popped, original_url) + 1)
    /\ IF DownloadStatus(hit, o) = "content"
       THEN StorePage(original_url, Fetched(original_url))
       ELSE /\ pages_queue' = Tail(pages_queue)
            /\ UNCHANGED <<tableVars, pages_to_download, downloaded_pages, page_count,
                           enqueued, page_links, pageVars, editVars>>
    /\ UNCHANGED <<pc, site, snapshot_timestamp, indexVars, outputVars, pathVars, poolVars, urlVars, editVars>>

\* lines 767-806: the head of the queue is popped and fetched
PopFetch ==
    /\ pc = "discover"
    /\ LoopContinues(pages_queue, page_count)
    /\ ~SkipPage(Head(pages_queue)[1], downloaded_pages)
    /\ \E o \in Responses :
          FetchPage(Head(pages_queue)[1], Head(pages_queue)[2], o,
                    IsCached(downloaded_urls,
                             CacheKey(Head(pages_queue)[2], Head(pages_queue)[1])))

(***************************************************************************)
(* archive(): assets, rewriting and the index file                         *)
(***************************************************************************)
\* lines 811-822: not mapped yet, and a candidate
NeedsDownload(url, utl) == url \notin DOMAIN utl /\ Fetched(url).candidate

\* lines 766 and 808-833: the loop has ended, the assets are filtered and one
\* task per asset is handed to the pool
FilterAssets ==
    /\ pc = "discover"
    /\ ~LoopContinues(pages_queue, page_count)
    /\ pc' = "assets"
    /\ assets_to_download' = {u \in all_asset_urls : NeedsDownload(u, url_to_local)}
    /\ futures' = [u \in {v \in all_asset_urls : NeedsDownload(v, url_to_local)} |-> "pending"]
    /\ UNCHANGED <<site, snapshot_timestamp, indexVars, tableVars, fetchVars, queueVars, pageVars,
                   rewritten, files, pathVars, poolVars, urlVars, editVars>>

max_workers == 5

\* the thread that runs archive()
MainThread == 0

\* the worker threads of the pool that are running a task
Busy(f, w) == {w[url] : url \in {u \in DOMAIN w : f[u] = "running"}}

\* line 832: the pool starts its threads one by one as tasks are submitted, at
\* most max_workers of them; a task starts on a thread that runs no task.
\* Threads are numbered in the order of their first task
IdleWorkers(f, w) ==
    (1..Min(max_workers, Cardinality({w[u] : u \in DOMAIN w}) + 1)) \ Busy(f, w)

\* line 833: a submitted task starts on a worker thread
StartAsset(url, worker) ==
    /\ futures' = [futures EXCEPT ![url] = "running"]
    /\ workers' = MapPut(workers, url, worker)
    /\ UNCHANGED <<pc, site, snapshot_timestamp, indexVars, tableVars, fetchVars, queueVars,
                   pageVars, assets_to_download, rewritten, files, touched, pathVars, urlVars, editVars>>

AssetStart ==
    /\ pc = "assets"
    /\ \E url \in DOMAIN futures :
          /\ futures[url] = "pending"
          /\ \E worker \in IdleWorkers(futures, workers) : StartAsset(url, worker)

\* lines 828-830: the worker thread runs download_asset(url): download_content
\* looks the key up in downloaded_urls and, on a 200, adds it
FetchAsset(url, o, hit) ==
    /\ DownloadStep(CacheKey(snapshot_timestamp, url), url, o, hit)
    /\ futures' = [futures EXCEPT ![url] = DownloadStatus(hit, o)]
    /\ touched' = [touched EXCEPT !.cache = @ \cup {workers[url]}]
    /\ UNCHANGED <<pc, site, snapshot_timestamp, indexVars, tableVars, queueVars, pageVars,
                   assets_to_download, rewritten, files, workers, pathVars, urlVars, editVars>>

AssetFetch ==
    /\ pc = "assets"
    /\ \E url \in DOMAIN futures :
          /\ futures[url] = "running"
          /\ \E o \in Responses :
                FetchAsset(url, o, IsCached(downloaded_urls, CacheKey(snapshot_timestamp, url)))

\* a main thread that replaces the table by the entry of the finished task
SaveAssetAlone(url, local_path) ==
    /\ url_to_local' = [k \in {url} |-> local_path]
    /\ php_to_html' = php_to_html_after(php_to_html, url)
    /\ files' = MapPut(files, local_path, [kind |-> "bytes", body |-> ArchiveBody(url)])
    /\ futures' = [futures EXCEPT ![url] = "saved"]
    /\ touched' = [touched EXCEPT !.table = @ \cup {MainThread}]
    /\ UNCHANGED <<pc, site, snapshot_timestamp, indexVars, fetchVars, queueVars, pageVars,
                   assets_to_download, rewritten, workers, pathVars, urlVars, editVars>>

\* lines 835-843: the main thread takes a finished task that has content,
\* maps the URL and writes the file
SaveAsset(url, local_path) ==
    /\ url_to_local' = MapPut(url_to_local, url, local_path)
    /\ php_to_html' = php_to_html_after(php_to_html, url)
    /\ files' = MapPut(files, local_path, [kind |-> "bytes", body |-> ArchiveBody(url)])
    /\ futures' = [futures EXCEPT ![url] = "saved"]
    /\ touched' = [touched EXCEPT !.table = @ \cup {MainThread}]
    /\ UNCHANGED <<pc, site, snapshot_timestamp, indexVars, fetchVars, queueVars, pageVars,
                   assets_to_download, rewritten, workers, pathVars, urlVars, editVars>>

AssetSave ==
    /\ pc = "assets"
    /\ \E url \in DOMAIN futures :
          /\ futures[url] = "content"
          /\ SaveAsset(url, url_to_local_path(url))

\* a pool that is left while tasks are still running
PoolLeftEarly ==
    /\ pc = "assets"
    /\ pc' = "rewrite"
    /\ UNCHANGED <<site, snapshot_timestamp, indexVars, tableVars, fetchVars, queueVars, pageVars,
                   outputVars, pathVars, poolVars, urlVars, editVars>>

\* line 832: the pool is left when every task has finished and every result
\* has been taken
AssetsDone ==
    /\ pc = "assets"
    /\ \A url \in DOMAIN futures : futures[url] \notin {"pending", "running", "content"}
    /\ pc' = "rewrite"
    /\ UNCHANGED <<site, snapshot_timestamp, indexVars, tableVars, fetchVars, queueVars, pageVars,
                   outputVars, pathVars, poolVars, urlVars, editVars>>

\* lines 847-851: the next page of html_pages is rewritten and written
RewritePage ==
    /\ pc = "rewrite"
    /\ rewritten < Len(html_pages)
    /\ rewritten' = rewritten + 1
    /\ files' = MapPut(files, html_pages[rewritten + 1].path,
                       [kind |-> "html",
                        body |-> rewrite_html_links(html_pages[rewritten + 1].html,
                                                    html_pages[rewritten + 1].path,
                                                    url_to_local, php_to_html)])
    /\ UNCHANGED <<pc, site, snapshot_timestamp, indexVars, tableVars, fetchVars, queueVars, pageVars,
                   assets_to_download, futures, pathVars, poolVars, urlVars, editVars>>

\* the file name matches the glob *.ext
HasSuffix(path, ext) == EndsWith(path[Len(path)], ext)

\* lines 855-862: every stylesheet of the output tree is rewritten
RewriteCss ==
    /\ pc = "rewrite"
    /\ rewritten = Len(html_pages)
    /\ pc' = "js"
    /\ files' = [f \in DOMAIN files |->
                    IF HasSuffix(f, <<".","c","s","s">>) /\ files[f].kind = "bytes"
                    THEN [files[f] EXCEPT !.body = rewrite_css(files[f].body, f, url_to_local)]
                    ELSE files[f]]
    /\ UNCHANGED <<site, snapshot_timestamp, indexVars, tableVars, fetchVars, queueVars, pageVars,
                   assets_to_download, futures, rewritten, pathVars, poolVars, urlVars, editVars>>

\* lines 866-878: every script of the output tree is cleaned of replay URLs
CleanJs ==
    /\ pc = "js"
    /\ pc' = "index"
    /\ files' = [f \in DOMAIN files |->
                    IF HasSuffix(f, <<".","j","s">>) /\ files[f].kind = "bytes"
                    THEN [files[f] EXCEPT
                             !.body = [i \in 1..Len(files[f].body) |-> WaybackSub(files[f].body[i])]]
                    ELSE files[f]]
    /\ UNCHANGED <<site, snapshot_timestamp, indexVars, tableVars, fetchVars, queueVars, pageVars,
                   assets_to_download, futures, rewritten, pathVars, poolVars, urlVars, editVars>>

\* self.output_dir / 'index.html'
IndexPath == PathJoin(ARCHIVE_DIR, INDEX_HTML)

\* lines 889-901: the page that redirects to relative_main
Redirect(relative_main) == [kind |-> "redirect", body |-> <<relative_main>>]

\* lines 905-927: home.html or main.html, the first that exists
PossibleMains(tree) ==
    SelectSeq(<<PathJoin(ARCHIVE_DIR, <<"h","o","m","e",".","h","t","m","l">>),
                PathJoin(ARCHIVE_DIR, <<"m","a","i","n",".","h","t","m","l">>)>>,
              LAMBDA f : f \in DOMAIN tree)

FallbackIndex(tree, mains) ==
    IF mains = <<>> THEN tree
    ELSE MapPut(tree, IndexPath, Redirect(relpath(mains[1], ARCHIVE_DIR)))

\* lines 882-927
IndexedTree(tree, main_path) ==
    IF main_path # None /\ main_path # IndexPath
    THEN MapPut(tree, IndexPath, Redirect(relpath(main_path, ARCHIVE_DIR)))
    ELSE IF IndexPath \notin DOMAIN tree THEN FallbackIndex(tree, PossibleMains(tree))
    ELSE tree

\* lines 880-935: the index file is created and the run ends
CreateIndex ==
    /\ pc = "index"
    /\ pc' = "done"
    /\ files' = IndexedTree(files, main_page_local_path)
    /\ UNCHANGED <<site, snapshot_timestamp, indexVars, tableVars, fetchVars, queueVars, pageVars,
                   assets_to_download, futures, rewritten, pathVars, poolVars, urlVars, editVars>>

(***************************************************************************)
(* edit_archive.py: the documents and the files the editing step works on  *)
(***************************************************************************)
\* the name of the style sheet create_responsive_css writes (line 568)
RESPONSIVE_CSS == <<"r","e","s","p","o","n","s","i","v","e",".","c","s","s">>

\* a style sheet of the archived site
SITE_CSS == <<"s","t","y","l","e",".","c","s","s">>

\* line 285: os.path.relpath(publish_path / 'responsive.css', file_path.parent),
\* for a page in the publish directory and for a page one directory below it
CssRelativePaths == {RESPONSIVE_CSS, <<".",".","/">> \o RESPONSIVE_CSS}

\* a parsed document: the elements the injections look for, and where the
\* elements they create were put.  metas holds the name of every meta element,
\* links the href of every link element, hamburger the parent of every
\* #hamburger-btn, scripts the parent of every toggle script, banners the
\* number of #mobile-banner elements
Soup(html, head, body, menu, header, metas, links) ==
    [parsed |-> TRUE, html |-> html, head |-> head, body |-> body, menu |-> menu,
     header |-> header,
     metas |-> metas, links |-> links, hamburger |-> <<>>, scripts |-> <<>>, banners |-> 0]

\* no document is being edited
NoSoup == [parsed |-> FALSE, html |-> FALSE, head |-> FALSE, body |-> FALSE, menu |-> FALSE,
           header |-> FALSE, metas |-> <<>>, links |-> <<>>, hamburger |-> <<>>,
           scripts |-> <<>>, banners |-> 0]

\* the pages of the archive as BeautifulSoup parses them: with and without
\* html, head and body element, #menu and #header, a viewport meta and a link
\* to a responsive.css of their own
ArchivedSoups ==
    {Soup(html, head, body, menu, header, metas, links) :
        html \in BOOLEAN, head \in BOOLEAN, body \in BOOLEAN, menu \in BOOLEAN,
        header \in BOOLEAN,
        metas \in {<<>>, <<"description">>, <<"viewport">>},
        links \in {<<>>, <<SITE_CSS>>, <<RESPONSIVE_CSS>>}}

\* line 250: soup.find('meta', attrs={'name': 'viewport'})
HasViewport(soup) == \E i \in 1..Len(soup.metas) : soup.metas[i] = "viewport"

\* line 257: soup.find('link', href=re.compile(r'responsive\.css'))
HasResponsiveLink(soup) ==
    \E i \in 1..Len(soup.links) : Contains(soup.links[i], RESPONSIVE_CSS)

\* lines 240-246: the head element is looked up, and created in the html
\* element when it is missing
WithHead(soup) == IF ~soup.head /\ soup.html THEN [soup EXCEPT !.head = TRUE] ELSE soup

\* lines 250-255: the viewport meta is put first in the head
WithViewport(soup) ==
    IF HasViewport(soup) THEN soup ELSE [soup EXCEPT !.metas = <<"viewport">> \o @]

\* lines 257-262: the link is put last in the head
WithLink(soup, css_relative_path) ==
    IF HasResponsiveLink(soup) THEN soup
    ELSE [soup EXCEPT !.links = Append(@, css_relative_path)]

\* lines 238-264: inject_responsive(soup, css_relative_path): the document it
\* leaves and the value it returns
inject_responsive(soup, css_relative_path) ==
    IF ~soup.head /\ ~soup.html THEN [soup |-> soup, value |-> FALSE]
    ELSE [soup |-> WithLink(WithViewport(WithHead(soup)), css_relative_path),
          value |-> ~HasViewport(soup) \/ ~HasResponsiveLink(soup)]

\* lines 169-221: inject_hamburger_menu(soup): the button goes into #header,
\* or before #menu; the script into the body, or to the end of the document
inject_hamburger_menu(soup) ==
    IF ~soup.menu \/ soup.hamburger # <<>> THEN [soup |-> soup, value |-> FALSE]
    ELSE [soup |-> [soup EXCEPT
                       !.hamburger = Append(@, IF soup.header THEN "header" ELSE "menu"),
                       !.scripts = Append(@, IF soup.body THEN "body" ELSE "soup")],
          value |-> TRUE]

\* a banner is put after #menu whether the document has one or not
inject_mobile_banner_unguarded(soup) ==
    IF ~soup.menu THEN [soup |-> soup, value |-> FALSE]
    ELSE [soup |-> [soup EXCEPT !.banners = @ + 1], value |-> TRUE]

\* lines 224-235: inject_mobile_banner(soup): the banner goes after #menu
inject_mobile_banner(soup) ==
    IF ~soup.menu \/ soup.banners > 0 THEN [soup |-> soup, value |-> FALSE]
    ELSE [soup |-> [soup EXCEPT !.banners = @ + 1], value |-> TRUE]

\* a file of the publish directory is the sequence of the pieces of its text
\* that the editing step looks for, with TEXT for any other text
TEXT == "..."

P_OPEN == "<p>"

P_CLOSE == "</p>"

DIV_CLOSE == "</div>"

\* line 584: the marker of index.html
BLURB_INDEX == "from all over to showcase their work in our fine city.<br/>\n</div>"

\* line 601: the marker of events.html
BLURB_EVENTS == "<div class=\"blurb\">CCAS is dedicated to promoting independent arts of all mediums in Baltimore City.  Click the link below to find out about  our  gallery schedule.</div>"

\* lines 588, 605: what is put after the marker
NEW_CONTENT == "\n<div id=\"newContent\"></div>"

\* line 625: last_show_marker
LAST_SHOW_MARKER == "LAST SHOW AT 1731 MARYAND AVE"

\* lines 645, 675: the date of the show, as the pattern and the entry have it
SHOW_DATE == "<b>Wednesday, November 11th"

\* lines 647, 681: the last band of the show
JUMBLED == "Jumbled"

\* line 685: the text the notice paragraph starts with
NOTICE == "NOTICE: DUE TO UNFORSEEN"

\* the number of a show, written at the start of a line and after other text
LineNumber == <<"\n1.", "\n2.", "\n3.">>

InlineNumber == <<"1.", "2.", "3.", "4.">>

\* the names of the files the editing step reads and writes
INDEX_PAGE == "index.html"

EVENTS_PAGE == "events.html"

PAST_PAGE == "past.html"

PublishNames == {INDEX_PAGE, EVENTS_PAGE, PAST_PAGE}

\* Path.exists()
Exists(dir, name) == dir[name] # None

\* piece in html
In(piece, html) == \E i \in 1..Len(html) : html[i] = piece

\* str.find(piece, start) and str.rfind(piece, 0, end) on the pieces of a
\* text, 0 when the piece is not found
FindFrom(html, piece, start) ==
    MinOr({i \in start..Len(html) : html[i] = piece}, 0)

RFindBefore(html, piece, end) ==
    MaxOr({i \in 1..(end - 1) : html[i] = piece}, 0)

\* html[:i] + pieces + html[i:], for the piece at index i
InsertBefore(html, i, pieces) ==
    SubSeq(html, 1, i - 1) \o pieces \o SubSeq(html, i, Len(html))

\* lines 586-588, 603-605: the marker is in the text, and is nowhere followed
\* by the newContent div
LacksContentDiv(html, blurb_marker) ==
    /\ In(blurb_marker, html)
    /\ ~\E i \in 1..(Len(html) - 1) : html[i] = blurb_marker /\ html[i + 1] = NEW_CONTENT

\* lines 590-594, 607-611: html.replace(marker, marker + div, 1)
WithContentDiv(html, blurb_marker) ==
    InsertBefore(html, FindFrom(html, blurb_marker, 1) + 1, <<NEW_CONTENT>>)

\* lines 581-596, 598-613: one of the two files of add_content_divs
ContentDivAdded(dir, name, blurb_marker) ==
    Exists(dir, name) /\ LacksContentDiv(dir[name], blurb_marker)

\* lines 572-615: add_content_divs(publish_path): the directory it leaves and
\* the dict it returns
add_content_divs(dir) ==
    [dir |-> [name \in PublishNames |->
                 CASE name = INDEX_PAGE /\ ContentDivAdded(dir, name, BLURB_INDEX) ->
                          WithContentDiv(dir[name], BLURB_INDEX)
                   [] name = EVENTS_PAGE /\ ContentDivAdded(dir, name, BLURB_EVENTS) ->
                          WithContentDiv(dir[name], BLURB_EVENTS)
                   [] OTHER -> dir[name]],
     index |-> ContentDivAdded(dir, INDEX_PAGE, BLURB_INDEX),
     events |-> ContentDivAdded(dir, EVENTS_PAGE, BLURB_EVENTS)]

\* lines 644-649: the end of the match of show_pattern that starts with the
\* paragraph at index i: the first </p> after the first Jumbled after the
\* first marker after the date; 0 when there is none
ShowEnd(html, i) ==
    LET marker == FindFrom(html, LAST_SHOW_MARKER, i + 2)
        band == IF marker = 0 THEN 0 ELSE FindFrom(html, JUMBLED, marker + 1)
    IN  IF band = 0 THEN 0 ELSE FindFrom(html, P_CLOSE, band + 1)

\* lines 644-649: where show_pattern matches first: a paragraph that starts
\* with the date; 0 when it matches nowhere
ShowStart(html) ==
    MinOr({i \in 1..(Len(html) - 1) :
              html[i] = P_OPEN /\ html[i + 1] = SHOW_DATE /\ ShowEnd(html, i) > 0}, 0)

\* line 651: show_pattern.sub('', events_html, count=1)
WithoutShow(html) ==
    IF ShowStart(html) = 0 THEN html
    ELSE SubSeq(html, 1, ShowStart(html) - 1)
             \o SubSeq(html, ShowEnd(html, ShowStart(html)) + 1, Len(html))

\* lines 665-670: the highest number that starts a line of the text
LastNumber(html) ==
    MaxOr({n \in 1..Len(LineNumber) : In(LineNumber[n], html)}, 0)

\* lines 675-683: show_entry
ShowEntry(next_number) ==
    <<P_OPEN, InlineNumber[next_number], SHOW_DATE, LAST_SHOW_MARKER, JUMBLED, P_CLOSE>>

\* lines 686-688: the paragraph the notice is in; 0 when there is no notice,
\* or no paragraph before it
NoticeParagraph(html) ==
    IF FindFrom(html, NOTICE, 1) = 0 THEN 0
    ELSE RFindBefore(html, P_OPEN, FindFrom(html, NOTICE, 1))

\* line 695: past_html.rfind(str(last_number) + '.'); 0 when no piece holds
\* the number
LastNumberAt(html, last_number) ==
    IF last_number = 0 THEN 0
    ELSE MaxOr({i \in 1..Len(html) :
                   html[i] \in {LineNumber[last_number], InlineNumber[last_number]}}, 0)

\* line 695: past_html.find('</div>', ...): from the last number on, and
\* from the last character of the text when the number was not found
TextDivEnd(html, last_number) ==
    IF LastNumberAt(html, last_number) = 0 THEN 0
    ELSE FindFrom(html, DIV_CLOSE, LastNumberAt(html, last_number))

\* lines 665-700: where the entry is inserted in past.html; 0 when no place
\* was found
InsertPos(html) ==
    IF NoticeParagraph(html) > 0 THEN NoticeParagraph(html)
    ELSE TextDivEnd(html, LastNumber(html))

\* lines 618-704: move_last_show_to_past_events(publish_path): the directory
\* it leaves and the value it returns
move_last_show_to_past_events(dir) ==
    IF ~Exists(dir, EVENTS_PAGE) \/ ~Exists(dir, PAST_PAGE)
    THEN [dir |-> dir, value |-> FALSE]
    ELSE IF ~In(LAST_SHOW_MARKER, dir[EVENTS_PAGE]) \/ ShowStart(dir[EVENTS_PAGE]) = 0
    THEN [dir |-> dir, value |-> FALSE]
    ELSE IF In(LAST_SHOW_MARKER, dir[PAST_PAGE])
    THEN [dir |-> [dir EXCEPT ![EVENTS_PAGE] = WithoutShow(@)], value |-> TRUE]
    ELSE IF InsertPos(dir[PAST_PAGE]) > 0
    THEN [dir |-> [dir EXCEPT
                      ![EVENTS_PAGE] = WithoutShow(@),
                      ![PAST_PAGE] = InsertBefore(@, InsertPos(@),
                                                  ShowEntry(LastNumber(@) + 1))],
          value |-> TRUE]
    ELSE [dir |-> [dir EXCEPT ![EVENTS_PAGE] = WithoutShow(@)], value |-> FALSE]

\* index.html as the archive has it: without the blurb, with it, with the
\* newContent div already after it, and with the blurb twice
HomePages ==
    {None,
     <<TEXT>>,
     <<TEXT, BLURB_INDEX, TEXT>>,
     <<TEXT, BLURB_INDEX, NEW_CONTENT, TEXT>>,
     <<BLURB_INDEX, TEXT, BLURB_INDEX, NEW_CONTENT>>}

\* events.html: without the show, with the marker outside the paragraph the
\* pattern matches, and with the show, after the blurb or without it
EventsPages ==
    {None,
     <<BLURB_EVENTS, TEXT>>,
     <<P_OPEN, TEXT, LAST_SHOW_MARKER, P_CLOSE>>,
     <<P_OPEN, SHOW_DATE, TEXT, LAST_SHOW_MARKER, TEXT, JUMBLED, P_CLOSE, P_OPEN, TEXT, P_CLOSE>>,
     <<BLURB_EVENTS, P_OPEN, SHOW_DATE, LAST_SHOW_MARKER, JUMBLED, P_CLOSE, TEXT, DIV_CLOSE>>,
     <<BLURB_EVENTS, NEW_CONTENT, P_OPEN, SHOW_DATE, LAST_SHOW_MARKER, JUMBLED, P_CLOSE>>}

\* past.html: the numbered shows with the notice paragraph after them, with
\* the closing tag of the text area only, with neither, with the numbers
\* after the paragraph tag, with the notice outside a paragraph, and with the
\* last show already on the page
PastPages ==
    {None,
     <<P_OPEN, LineNumber[1], TEXT, P_CLOSE, P_OPEN, LineNumber[2], TEXT, P_CLOSE,
       P_OPEN, NOTICE, P_CLOSE, DIV_CLOSE>>,
     <<P_OPEN, LineNumber[1], TEXT, P_CLOSE, P_OPEN, LineNumber[2], TEXT, P_CLOSE, DIV_CLOSE>>,
     <<P_OPEN, LineNumber[1], TEXT, P_CLOSE, P_OPEN, LineNumber[2], TEXT, P_CLOSE>>,
     <<P_OPEN, InlineNumber[1], TEXT, P_CLOSE, P_OPEN, InlineNumber[2], TEXT, P_CLOSE, DIV_CLOSE>>,
     <<NOTICE, LineNumber[1], TEXT, DIV_CLOSE>>,
     <<P_OPEN, LineNumber[1], TEXT, P_CLOSE,
       P_OPEN, InlineNumber[3], SHOW_DATE, LAST_SHOW_MARKER, JUMBLED, P_CLOSE, DIV_CLOSE>>}

\* the publish directories the editing step is run on
PublishDirs ==
    {[name \in PublishNames |->
         CASE name = INDEX_PAGE -> index_page
           [] name = EVENTS_PAGE -> events_page
           [] OTHER -> past_page] :
        index_page \in HomePages, events_page \in EventsPages, past_page \in PastPages}

\* no publish directory is being edited
NoFiles == [name \in PublishNames |-> None]

\* the number of editing calls on one document, or on one directory
MaxCalls == 3

\* the variables of EditSpec are idle in the other specifications
EditIdle ==
    /\ e_soup = NoSoup
    /\ e_files = NoFiles
    /\ e_ret = [n |-> 0, op |-> "idle"]

\* line 286: process_html_file calls inject_responsive on the document
InjectResponsive ==
    /\ e_soup.parsed
    /\ e_ret.n < MaxCalls
    /\ \E css_relative_path \in CssRelativePaths :
           /\ e_soup' = inject_responsive(e_soup, css_relative_path).soup
           /\ e_ret' = [n |-> e_ret.n + 1, op |-> "inject_responsive",
                        value |-> inject_responsive(e_soup, css_relative_path).value]
    /\ UNCHANGED <<archiverVars, site, poolVars, pathVars, urlVars, e_files>>

\* line 289: process_html_file calls inject_hamburger_menu on the document
InjectHamburger ==
    /\ e_soup.parsed
    /\ e_ret.n < MaxCalls
    /\ e_soup' = inject_hamburger_menu(e_soup).soup
    /\ e_ret' = [n |-> e_ret.n + 1, op |-> "inject_hamburger_menu",
                 value |-> inject_hamburger_menu(e_soup).value]
    /\ UNCHANGED <<archiverVars, site, poolVars, pathVars, urlVars, e_files>>

\* line 292: process_html_file calls inject_mobile_banner on the document
InjectBanner ==
    /\ e_soup.parsed
    /\ e_ret.n < MaxCalls
    /\ e_soup' = inject_mobile_banner(e_soup).soup
    /\ e_ret' = [n |-> e_ret.n + 1, op |-> "inject_mobile_banner",
                 value |-> inject_mobile_banner(e_soup).value]
    /\ UNCHANGED <<archiverVars, site, poolVars, pathVars, urlVars, e_files>>

\* line 760: main calls move_last_show_to_past_events on the directory
MoveLastShow ==
    /\ ~e_soup.parsed
    /\ e_ret.n < MaxCalls
    /\ e_files' = move_last_show_to_past_events(e_files).dir
    /\ e_ret' = [n |-> e_ret.n + 1, op |-> "move_last_show_to_past_events",
                 value |-> move_last_show_to_past_events(e_files).value]
    /\ UNCHANGED <<archiverVars, site, poolVars, pathVars, urlVars, e_soup>>

\* line 764: main calls add_content_divs on the directory
AddContentDivs ==
    /\ ~e_soup.parsed
    /\ e_ret.n < MaxCalls
    /\ e_files' = add_content_divs(e_files).dir
    /\ e_ret' = [n |-> e_ret.n + 1, op |-> "add_content_divs",
                 index |-> add_content_divs(e_files).index,
                 events |-> add_content_divs(e_files).events]
    /\ UNCHANGED <<archiverVars, site, poolVars, pathVars, urlVars, e_soup>>

\* the variables of UrlSpec are idle in the other specifications
UrlIdle ==
    /\ u_in = <<>>
    /\ u_clean = Pending
    /\ u_again = Pending
    /\ u_path = Pending
    /\ u_conv = Pending

\* the variables of PathSpec are idle during a run of archive()
PathIdle ==
    /\ p_url = None
    /\ p_page = None
    /\ p_elem = Elem("a", "href", <<>>)
    /\ p_out = Pending
    /\ p_conv = Pending
    /\ p_again = Pending

Init == InitArchiver /\ site = "small" /\ PathIdle /\ UrlIdle /\ EditIdle

Next ==
    \/ Seed
    \/ IndexAbort
    \/ PopSkip
    \/ PopFetch
    \/ FilterAssets
    \/ AssetStart
    \/ AssetFetch
    \/ AssetSave
    \/ AssetsDone
    \/ RewritePage
    \/ RewriteCss
    \/ CleanJs
    \/ CreateIndex

\* one run of archive() on the small site
Spec == Init /\ [][Next]_vars

(***************************************************************************)
(* The discovery loop on the link farm                                     *)
(***************************************************************************)
FarmInit == InitArchiver /\ site = "farm" /\ PathIdle /\ UrlIdle /\ EditIdle

FarmNext == Seed \/ PopSkip \/ PopFetch \/ FilterAssets

FarmSpec == FarmInit /\ [][FarmNext]_vars

\* the loop is one thread of control: it takes its next step whenever it has one
FairFarmSpec == FarmSpec /\ WF_vars(FarmNext)

\* one run of archive() on the twin site, whose index answers without error
TwinInit == InitArchiver /\ site = "twin" /\ PathIdle /\ UrlIdle /\ EditIdle

TwinNext ==
    \/ Seed
    \/ PopSkip
    \/ PopFetch
    \/ FilterAssets
    \/ AssetStart
    \/ AssetFetch
    \/ AssetSave
    \/ AssetsDone
    \/ RewritePage
    \/ RewriteCss
    \/ CleanJs
    \/ CreateIndex

TwinSpec == TwinInit /\ [][TwinNext]_vars

(***************************************************************************)
(* EditSpec: the editing calls of edit_archive.py, any number of times on  *)
(* one parsed document, or on one publish directory                        *)
(***************************************************************************)
EditInit ==
    /\ InitArchiver
    /\ site = "small"
    /\ PathIdle
    /\ UrlIdle
    /\ e_ret = [n |-> 0, op |-> "none"]
    /\ \/ e_soup \in ArchivedSoups /\ e_files = NoFiles
       \/ e_soup = NoSoup /\ e_files \in PublishDirs

EditNext == InjectResponsive \/ InjectHamburger \/ InjectBanner \/ MoveLastShow \/ AddContentDivs

EditSpec == EditInit /\ [][EditNext]_vars

(***************************************************************************)
(* The path mapper and the rewriter applied to one link: the URL, the page *)
(* and the form of the link are drawn from the sets below                  *)
(***************************************************************************)
PathUrls == {
    SITE \o <<"/","i","n","d","e","x",".","p","h","p","?","a","c","t","i","o","n","=","e","v","e","n","t","s">>,
    SITE \o <<"/","s","u","b","/","i","n","d","e","x",".","p","h","p","?","a","c","t","i","o","n","=","e","v","e","n","t","s">>,
    SITE \o <<"/","i","n","d","e","x",".","p","h","p","?","a","c","t","i","o","n","=","m","y","%","2","0","p","a","g","e">>,
    SITE \o <<"/","i","n","d","e","x",".","p","h","p","?","i","d","=","1","&","a","c","t","i","o","n","=","e","v","e","n","t","s">>,
    SITE \o <<"/","p","a","g","e",".","p","h","p","?","a","c","t","i","o","n","=","e","v","e","n","t","s">>,
    SITE \o <<"/","p","a","g","e",".","p","h","p","?","i","d","=","1">>,
    SITE \o <<"/","i","n","d","e","x",".","p","h","p","?","a","c","t","i","o","n","=">>,
    SITE \o <<"/","s","u","b","/","p","a","g","e",".","p","h","p">>,
    SITE \o <<"/","p","a","g","e",".","h","t","m","l","?","f","o","o","=","b","a","r">>}

PathPages == {
    SITE \o <<"/">>,
    SITE \o <<"/","s","u","b","/","p","a","g","e",".","h","t","m","l">>,
    SITE \o <<"/","s","u","b">>,
    SITE \o <<"/","i","n","d","e","x",".","p","h","p","?","a","c","t","i","o","n","=","e","v","e","n","t","s">>}

QuerySuffix(u) == IF u.query # <<>> THEN <<"?">> \o u.query ELSE <<>>

\* the relative forms tried for a URL: its path from the root, its file
\* name, and the file name below ./, ../ and sub/
RelativeForms(u) ==
    {u.path \o QuerySuffix(u),
     AfterLast(u.path, "/") \o QuerySuffix(u),
     <<".","/">> \o AfterLast(u.path, "/") \o QuerySuffix(u),
     <<".",".","/">> \o AfterLast(u.path, "/") \o QuerySuffix(u),
     <<"s","u","b","/">> \o AfterLast(u.path, "/") \o QuerySuffix(u)}

\* the ways a page at page_url can write a reference to url: absolute,
\* wrapped by the archive host, and the relative forms that resolve to url
LinkForms(url, page_url, rels) ==
    {url, Wrapped(url)} \cup {r \in rels : ResolveAgainst(r, page_url) = url}

LinkValues(url, page_url) == LinkForms(url, page_url, RelativeForms(urlparse(url)))

PathInit ==
    /\ InitArchiver
    /\ EditIdle
    /\ site = "small"
    /\ p_url \in PathUrls
    /\ p_page \in PathPages
    /\ p_elem \in {Elem(ta[1], ta[2], v) :
                     ta \in {<<"a", "href">>, <<"form", "action">>},
                     v \in LinkValues(p_url, p_page)}
    /\ p_out = Pending
    /\ p_conv = Pending
    /\ p_again = Pending
    /\ UrlIdle

\* url_to_local_path is called on the URL or on the page: the cache fills
PathMap ==
    /\ \E v \in {p_url, p_page} :
          /\ php_to_html_after(php_to_html, v) # php_to_html
          /\ php_to_html' = php_to_html_after(php_to_html, v)
    /\ UNCHANGED <<pc, site, snapshot_timestamp, indexVars, url_to_local, fetchVars, queueVars,
                   pageVars, outputVars, pathVars, poolVars, urlVars, editVars>>

\* the URL or the page was downloaded: lines 785-787 and 838-839
PathRegister ==
    /\ \E v \in {p_url, p_page} :
          /\ v \notin DOMAIN url_to_local
          /\ url_to_local' = MapPut(url_to_local, v, url_to_local_path(v))
          /\ php_to_html' = php_to_html_after(php_to_html, v)
    /\ UNCHANGED <<pc, site, snapshot_timestamp, indexVars, fetchVars, queueVars, pageVars,
                   outputVars, pathVars, poolVars, urlVars, editVars>>

\* rewrite_html_links rewrites the link on its page
PathRewrite ==
    /\ p_out' = RewriteValue(p_elem, url_to_local_path(p_page), url_to_local, php_to_html)
    /\ p_out' # p_out
    /\ UNCHANGED <<pc, site, snapshot_timestamp, indexVars, tableVars, fetchVars, queueVars, pageVars,
                   outputVars, poolVars, urlVars, p_url, p_page, p_elem, p_conv, p_again, editVars>>

\* convert_php_url_to_html_path is called on the URL
PathConvert ==
    /\ p_conv' = convert_php_url_to_html_path(php_to_html, p_url)
    /\ p_conv' # p_conv
    /\ UNCHANGED <<pc, site, snapshot_timestamp, indexVars, tableVars, fetchVars, queueVars, pageVars,
                   outputVars, poolVars, urlVars, p_url, p_page, p_elem, p_out, p_again, editVars>>

PathNext == PathMap \/ PathRegister \/ PathRewrite \/ PathConvert

PathSpec == PathInit /\ [][PathNext]_vars

(***************************************************************************)
(* clean_url, url_to_local_path and convert_php_url_to_html_path applied   *)
(* to one reference drawn from the set below                               *)
(***************************************************************************)
\* the original URL behind a prefix of the archive host, with the flags of
\* the capture between the timestamp and the slash
WrappedAs(prefix, flags, original) ==
    prefix \o WAYBACK_PREFIX \o SNAPSHOT_TIMESTAMP \o flags \o <<"/">> \o original

PAGE_URL == SITE \o <<"/","p","a","g","e",".","h","t","m","l">>

\* absolute URLs of the target site: with and without a query, a trailing
\* slash, an extension, a dispatch query
SiteUrls == {
    PAGE_URL,
    SITE,
    SITE \o <<"/">>,
    SITE \o <<"/","a","b","o","u","t">>,
    SITE \o <<"/","a","b","o","u","t","/">>,
    SITE \o <<"/","i","m","g","/","l","o","g","o",".","p","n","g">>,
    SITE \o <<"/","p","a","g","e",".","h","t","m","l","?","f","o","o","=","b","a","r">>,
    SITE \o <<"/","a","b","o","u","t","?","i","d","=","1">>,
    SITE \o <<"/","c","o","n","t","a","c","t",".","p","h","p">>,
    SITE \o <<"/","p","a","g","e","s","/","i","n","f","o",".","p","h","p">>,
    SITE \o <<"/","p","a","g","e",".","p","h","p","?","i","d","=","1">>,
    SITE \o <<"/","i","n","d","e","x",".","p","h","p","?","a","c","t","i","o","n","=">>,
    SITE \o <<"/","s","u","b","/","i","n","d","e","x",".","p","h","p","?","a","c","t","i","o","n","=","e","v","e","n","t","s">>,
    SITE \o <<"/","p","a","g","e",".">>,
    SITE \o <<"/",".","h","t","a","c","c","e","s","s">>,
    EVENTS_URL,
    STYLE_URL}

\* the forms a reference takes on a captured page: plain, wrapped by the
\* archive host (with and without a scheme, with capture flags, without the
\* scheme of the original, twice), protocol-relative, relative, and the
\* schemes that are not fetched
UrlInputs ==
    SiteUrls
    \cup {Wrapped(u) : u \in SiteUrls}
    \cup {WrappedAs(<<>>, <<>>, PAGE_URL),
          WrappedAs(<<"h","t","t","p","s",":">>, <<"c","s","_">>, STYLE_URL),
          WrappedAs(<<"h","t","t","p","s",":">>, <<"i","d","_">>, PAGE_URL),
          WrappedAs(<<"h","t","t","p","s",":">>, <<>>, WWW_DOMAIN \o <<"/","p","a","g","e",".","h","t","m","l">>),
          Wrapped(Wrapped(PAGE_URL)),
          Wrapped(WrappedAs(<<>>, <<>>, EVENTS_URL)),
          <<"/","/","c","d","n",".","e","x","a","m","p","l","e",".","c","o","m","/","s",".","j","s">>,
          <<"p","a","g","e",".","h","t","m","l">>,
          <<"/","i","n","d","e","x",".","p","h","p","?","a","c","t","i","o","n","=","e","v","e","n","t","s">>,
          <<"m","a","i","l","t","o",":","a","@","b",".","c">>,
          <<"j","a","v","a","s","c","r","i","p","t",":","v","o","i","d","(","0",")">>,
          <<"#","t","o","p">>,
          <<>>}

UrlInit ==
    /\ InitArchiver
    /\ EditIdle
    /\ site = "small"
    /\ PathIdle
    /\ u_in \in UrlInputs
    /\ u_clean = Pending
    /\ u_again = Pending
    /\ u_path = Pending
    /\ u_conv = Pending

\* lines 172-197: the reference is un-wrapped
UrlClean ==
    /\ u_clean = Pending
    /\ u_clean' = clean_url(u_in)
    /\ UNCHANGED <<archiverVars, site, poolVars, pathVars, u_in, u_again, u_path, u_conv, editVars>>

\* the un-wrapped reference is un-wrapped a second time
UrlCleanAgain ==
    /\ u_clean \notin {Pending, None}
    /\ u_again = Pending
    /\ u_again' = clean_url(u_clean)
    /\ UNCHANGED <<archiverVars, site, poolVars, pathVars, u_in, u_clean, u_path, u_conv, editVars>>

\* lines 199-238: the un-wrapped URL is mapped to its local path, and the
\* dispatch cache filled
UrlMap ==
    /\ u_clean \notin {Pending, None}
    /\ u_path = Pending
    /\ u_path' = url_to_local_path(u_clean)
    /\ php_to_html' = php_to_html_after(php_to_html, u_clean)
    /\ UNCHANGED <<pc, site, snapshot_timestamp, indexVars, url_to_local, fetchVars, queueVars,
                   pageVars, outputVars, poolVars, pathVars, u_in, u_clean, u_again, u_conv, editVars>>

\* lines 240-268: convert_php_url_to_html_path is called on the un-wrapped
\* URL, before or after the cache was filled
UrlConvert ==
    /\ u_clean \notin {Pending, None}
    /\ u_conv' = convert_php_url_to_html_path(php_to_html, u_clean)
    /\ u_conv' # u_conv
    /\ UNCHANGED <<archiverVars, site, poolVars, pathVars, u_in, u_clean, u_again, u_path, editVars>>

UrlNext == UrlClean \/ UrlCleanAgain \/ UrlMap \/ UrlConvert

UrlSpec == UrlInit /\ [][UrlNext]_vars

(***************************************************************************)
(* rewrite_html_links and rewrite_css applied, once and twice, to one      *)
(* reference on one page, with the tables filled before the rewriting      *)
(***************************************************************************)
EXTERNAL_URL == <<"h","t","t","p","s",":","/","/","e","x","a","m","p","l","e",".","c","o","m","/","p","a","g","e">>

LOGO_URL == SITE \o <<"/","i","m","g","/","l","o","g","o",".","p","n","g">>

DETAIL_URL == SITE \o <<"/","p","a","g","e",".","p","h","p","?","i","d","=","1">>

\* references that start at the root of the site
RootRefs == {
    Elem("a", "href", <<"/","p","a","g","e",".","h","t","m","l">>),
    Elem("a", "href", <<"/","s","u","b","/","o","t","h","e","r",".","h","t","m","l">>),
    Elem("a", "href", <<"/">>),
    Elem("area", "href", <<"/","p","a","g","e",".","h","t","m","l">>),
    Elem("img", "src", <<"/","i","m","g","/","l","o","g","o",".","p","n","g">>),
    Elem("form", "action", <<"/","s","e","a","r","c","h">>),
    Elem("object", "data", <<"/","m","e","d","i","a","/","m",".","s","w","f">>),
    Elem("video", "poster", <<"/","i","m","g","/","p",".","p","n","g">>),
    Elem("img", "srcset", <<"/","i","m","g","/","a",".","p","n","g"," ","1","x",",",
                            " ","/","i","m","g","/","b",".","p","n","g"," ","2","x">>),
    Elem("a", "href", <<"/","i","n","d","e","x",".","p","h","p","?","a","c","t","i","o","n","=","e","v","e","n","t","s">>),
    Elem("form", "action", <<"/","i","n","d","e","x",".","p","h","p","?","a","c","t","i","o","n","=","e","v","e","n","t","s">>)}

\* references to other sites
ExternalRefs == {
    Elem("a", "href", EXTERNAL_URL),
    Elem("a", "href", Wrapped(EXTERNAL_URL)),
    Elem("a", "href", Wrapped(Wrapped(EXTERNAL_URL))),
    Elem("a", "href", EXTERNAL_URL \o <<".","p","h","p">>),
    Elem("a", "href", <<"/","/","c","d","n",".","e","x","a","m","p","l","e",".","c","o","m","/","x">>),
    Elem("script", "src", <<"h","t","t","p","s",":","/","/","c","d","n",".","e","x","a","m","p","l","e",".","c","o","m","/","l",".","j","s">>),
    Elem("iframe", "src", EXTERNAL_URL \o <<".","p","h","p">>),
    Elem("form", "action", EXTERNAL_URL \o <<".","p","h","p">>),
    Elem("img", "srcset", EXTERNAL_URL \o <<".","p","n","g"," ","2","x">>),
    Elem("div", "style", EXTERNAL_URL \o <<".","p","n","g">>)}

\* references to dynamic scripts of the site
PhpRefs == {
    Elem("a", "href", <<"i","n","d","e","x",".","p","h","p","?","a","c","t","i","o","n","=","e","v","e","n","t","s">>),
    Elem("a", "href", <<"p","a","g","e",".","p","h","p">>),
    Elem("a", "href", <<"p","a","g","e",".","p","h","p","?","i","d","=","1">>),
    Elem("a", "href", <<"p","a","g","e",".","p","h","p","#","t","o","p">>),
    Elem("a", "href", EVENTS_URL),
    Elem("a", "href", DETAIL_URL),
    Elem("a", "href", Wrapped(DETAIL_URL)),
    Elem("iframe", "src", <<"p","a","g","e",".","p","h","p">>),
    Elem("iframe", "src", <<"p","a","g","e",".","p","h","p","?","i","d","=","1">>),
    Elem("iframe", "src", <<"i","n","d","e","x",".","p","h","p","?","a","c","t","i","o","n","=","e","v","e","n","t","s">>),
    Elem("iframe", "src", DETAIL_URL),
    Elem("form", "action", <<"p","a","g","e",".","p","h","p">>),
    Elem("form", "action", <<"p","a","g","e",".","p","h","p","?","i","d","=","1">>),
    Elem("form", "action", <<"i","n","d","e","x",".","p","h","p","?","a","c","t","i","o","n","=","e","v","e","n","t","s">>),
    Elem("form", "action", DETAIL_URL)}

\* references to static resources of the site, and a relative one
StaticRefs == {
    Elem("a", "href", PAGE_URL),
    Elem("a", "href", Wrapped(PAGE_URL)),
    Elem("a", "href", <<"o","t","h","e","r",".","h","t","m","l">>),
    Elem("img", "src", Wrapped(LOGO_URL)),
    Elem("img", "srcset", Wrapped(LOGO_URL) \o <<" ","1","x">>),
    Elem("div", "style", <<"/","i","m","g","/","b","g",".","p","n","g">>),
    Elem("div", "style", Wrapped(LOGO_URL)),
    Elem("div", "style", <<"b","g",".","p","n","g">>),
    Elem("style", "string", <<"/","i","m","g","/","b","g",".","p","n","g">>),
    Elem("style", "string", Wrapped(LOGO_URL)),
    Elem("style", "string", LOGO_URL)}

\* the url() references of a stylesheet
CssRefs == {
    Elem("css", "url", <<"/","i","m","g","/","b","g",".","p","n","g">>),
    Elem("css", "url", <<"b","g",".","p","n","g">>),
    Elem("css", "url", Wrapped(LOGO_URL)),
    Elem("css", "url", Wrapped(Wrapped(LOGO_URL))),
    Elem("css", "url", <<"/","/","c","d","n",".","e","x","a","m","p","l","e",".","c","o","m","/","f",".","w","o","f","f">>)}

\* references that start with //
ProtocolRefs == {
    Elem("a", "href", <<"/","/","p","a","g","e",".","h","t","m","l">>),
    Elem("a", "href", <<"/","/","p","a","g","e",".","h","t","m","l","?","x","=","1">>),
    Elem("a", "href", <<"/","/","p","a","g","e",".","h","t","m","l","#","t","o","p">>),
    Elem("a", "href", <<"/","/","a","b","o","u","t","/","t","e","a","m">>),
    Elem("area", "href", <<"/","/","a","b","o","u","t","/","t","e","a","m">>),
    Elem("area", "href", <<"/","/","p","a","g","e",".","h","t","m","l","#","t","o","p">>),
    Elem("img", "src", <<"/","/","c","d","n",".","e","x","a","m","p","l","e",".","c","o","m","/","l","o","g","o",".","p","n","g">>),
    Elem("iframe", "src", <<"/","/","p","a","g","e",".","h","t","m","l">>),
    Elem("track", "src", <<"/","/","s","u","b","s",".","h","t","m","l","#","x">>),
    Elem("track", "src", <<"/","/","m","e","d","i","a","/","s","u","b","s">>)}

RefElems == RootRefs \cup ExternalRefs \cup PhpRefs \cup StaticRefs \cup ProtocolRefs

\* the pages that hold the reference: at the root of the site, one and two
\* directories below it
RefPages == {
    SITE \o <<"/">>,
    SITE \o <<"/","s","u","b","/","p","a","g","e",".","h","t","m","l">>,
    SITE \o <<"/","a","/","b","/","p","a","g","e",".","h","t","m","l">>}

\* the stylesheets that hold the reference
CssPages == {STYLE_URL, SITE \o <<"/","c","s","s","/","s","i","t","e",".","c","s","s">>}

\* the URLs that were downloaded before the rewriting, or were not
RefMapped == {PAGE_URL, EVENTS_URL, LOGO_URL, DETAIL_URL}

RefInit ==
    /\ InitArchiver
    /\ EditIdle
    /\ site = "small"
    /\ UrlIdle
    /\ p_url = None
    /\ p_conv = Pending
    /\ \/ p_elem \in RefElems /\ p_page \in RefPages
       \/ p_elem \in CssRefs /\ p_page \in CssPages
    /\ p_out = Pending
    /\ p_again = Pending

\* lines 785-787 and 838-839: a URL is downloaded and mapped, before any
\* page is rewritten
RefRegister ==
    /\ p_out = Pending
    /\ \E v \in RefMapped :
          /\ v \notin DOMAIN url_to_local
          /\ url_to_local' = MapPut(url_to_local, v, url_to_local_path(v))
          /\ php_to_html' = php_to_html_after(php_to_html, v)
    /\ UNCHANGED <<pc, site, snapshot_timestamp, indexVars, fetchVars, queueVars, pageVars,
                   outputVars, pathVars, poolVars, urlVars, editVars>>

\* line 848: rewrite_html_links rewrites the reference on its page
RefRewrite ==
    /\ p_elem.tag # "css"
    /\ p_out = Pending
    /\ p_out' = RewriteValue(p_elem, url_to_local_path(p_page), url_to_local, php_to_html)
    /\ UNCHANGED <<archiverVars, site, poolVars, urlVars, p_url, p_page, p_elem, p_conv, p_again, editVars>>

\* rewrite_html_links is applied to the page it has rewritten
RefRewriteAgain ==
    /\ p_elem.tag # "css"
    /\ p_out # Pending
    /\ p_again = Pending
    /\ p_again' = RewriteValue([p_elem EXCEPT !.value = p_out], url_to_local_path(p_page),
                               url_to_local, php_to_html)
    /\ UNCHANGED <<archiverVars, site, poolVars, urlVars, p_url, p_page, p_elem, p_conv, p_out, editVars>>

\* line 858: rewrite_css rewrites the reference in its stylesheet
RefRewriteCss ==
    /\ p_elem.tag = "css"
    /\ p_out = Pending
    /\ p_out' = rewrite_css(<<p_elem.value>>, url_to_local_path(p_page), url_to_local)[1]
    /\ UNCHANGED <<archiverVars, site, poolVars, urlVars, p_url, p_page, p_elem, p_conv, p_again, editVars>>

\* rewrite_css is applied to the stylesheet it has rewritten
RefRewriteCssAgain ==
    /\ p_elem.tag = "css"
    /\ p_out # Pending
    /\ p_again = Pending
    /\ p_again' = rewrite_css(<<p_out>>, url_to_local_path(p_page), url_to_local)[1]
    /\ UNCHANGED <<archiverVars, site, poolVars, urlVars, p_url, p_page, p_elem, p_conv, p_out, editVars>>

RefNext == RefRegister \/ RefRewrite \/ RefRewriteAgain \/ RefRewriteCss \/ RefRewriteCssAgain

RefSpec == RefInit /\ [][RefNext]_vars

\* the file a reference written on the page stored at page_path names: the
\* reference resolved against the directory of the page
ResolveRef(page_path, ref) == normpath(PathJoin(Parent(page_path), ref))

\* a .php path whose query carries an action parameter
IsDispatchUrlParsed(u) ==
    u.query # <<>> /\ EndsWith(u.path, DOT_PHP) /\ HasAction(parse_qs(u.query))

IsDispatchUrl(url) == IsDispatchUrlParsed(urlparse(url))

(***************************************************************************)
(* Properties                                                              *)
(***************************************************************************)
\* C1: on every page and in every form the link can take, whether or not
\* the URL is in the URL->LocalPath table, a link to a dispatch URL u is
\* rewritten to a reference that names the file url_to_local_path(u)
DispatchLinkNamesMappedFile ==
    (p_out # Pending /\ IsDispatchUrl(p_url))
        => ResolveRef(url_to_local_path(p_page), p_out) = url_to_local_path(p_url)

\* C2: for any state of the dispatch cache, whenever
\* convert_php_url_to_html_path(u) returns a path, that path taken under the
\* output root is url_to_local_path(u)
ConvertAgreesWithMapper ==
    (p_conv # Pending /\ p_conv # None)
        => PathJoin(ARCHIVE_DIR, LStrip(p_conv, "/")) = url_to_local_path(p_url)

\* C3: no URL is requested from the archive more than once in a run, so a
\* URL whose request failed is never requested again
NoUrlRequestedTwice == \A u \in DOMAIN requests : requests[u] <= 1

\* C4: a call of download_content for a key that is in downloaded_urls
\* returns nothing and sends no request; downloaded_urls only grows, and it
\* grows exactly by the key of a call whose request was answered with status 200
CacheShortCircuits ==
    [][/\ downloaded_urls \subseteq downloaded_urls'
       /\ last_call'.n = last_call.n => downloaded_urls' = downloaded_urls
       /\ last_call'.n # last_call.n =>
             /\ last_call'.key \in downloaded_urls
                   => (~last_call'.requested /\ last_call'.status = "none")
             /\ downloaded_urls' =
                   downloaded_urls \cup
                      (IF last_call'.requested /\ last_call'.status \in {"content", "empty"}
                       THEN {last_call'.key} ELSE {})]_vars

\* a call of download_content found its key in the cache
CacheWasHit == last_call.n > 0 /\ ~last_call.requested /\ last_call.key \in downloaded_urls

\* C5: the discovery loop ends on the link farm, whose pages link back to the
\* entry page and each yield a page not seen before; the number of fetched
\* pages never exceeds max_pages; and when the loop has ended the queue is
\* empty or the cap is reached
DiscoveryTerminates ==
    /\ [](page_count <= max_pages)
    /\ [](pc \notin {"start", "discover"} => (pages_queue = <<>> \/ page_count >= max_pages))
    /\ <>(pc \notin {"start", "discover"})

\* the loop has ended at the cap with pages still queued
StoppedAtCap == pc = "assets" /\ page_count = max_pages /\ pages_queue # <<>>

\* C6: no URL is put on the discovery queue twice, the seeds included, no
\* URL is popped twice, and the queue never holds a URL twice
QueuedAtMostOnce ==
    /\ \A u \in DOMAIN enqueued : enqueued[u] <= 1
    /\ \A u \in DOMAIN popped : popped[u] <= 1
    /\ \A i, j \in 1..Len(pages_queue) : i # j => pages_queue[i][1] # pages_queue[j][1]

\* the dispatch page, fetched, linked back to the entry page, which was not
\* queued again
KnownLinkNotQueuedAgain ==
    /\ SNAPSHOT_URL \in downloaded_pages
    /\ EVENTS_URL \in downloaded_pages
    /\ SNAPSHOT_URL \in page_links
    /\ enqueued[SNAPSHOT_URL] = 1

\* the host name of url is the domain or a host that contains it
HostIsOurs(url) == Contains(urlparse(url).netloc, DOMAIN_NAME)

\* C7: a URL is fetched as a page, and a link is returned by
\* extract_page_links, only if its host name is the configured domain or a
\* host containing it
OnlyTargetSiteFetched == \A u \in page_fetches \cup page_links : HostIsOurs(u)

\* the anchors of a stored page, outside injected elements, whose target has
\* an asset extension
AssetAnchorTargets(page) ==
    {u \in ({LinkTarget(page.html[k].value, page.url) :
                k \in {i \in 1..Len(page.html) : /\ page.html[i].tag = "a"
                                                 /\ page.html[i].attr = "href"
                                                 /\ page.html[i].value # <<>>
                                                 /\ ~IsWaybackElementExtract(page.html[i])}}
            \ {None}) : HasAssetExtension(u)}

\* C8: an anchor whose target path has an asset extension is never returned
\* as a page link, and the target of such an anchor of a fetched page, when
\* the anchor is not inside an injected element and clean_url accepts it, is
\* in the asset set
AssetAnchorsAreAssetsOnly ==
    /\ \A u \in page_links : ~HasAssetExtension(u)
    /\ \A i \in 1..Len(html_pages) :
          \A u \in AssetAnchorTargets(html_pages[i]) :
             u \in all_asset_urls /\ u \notin page_links

\* the entry page was fetched: its anchor to the stylesheet gave an asset
\* and no page link
StylesheetAnchorSeen ==
    /\ SNAPSHOT_URL \in downloaded_pages
    /\ STYLE_URL \in AssetAnchorTargets(html_pages[1])
    /\ STYLE_URL \in all_asset_urls
    /\ STYLE_URL \notin page_links

\* the targets of the references of a stored page that lie inside
\* (injected = TRUE) or outside injected elements
TargetsOf(page, injected) ==
    {LinkTarget(page.html[k].value, page.url) :
        k \in {i \in 1..Len(page.html) :
                  IsWaybackElementExtract(page.html[i]) = injected}} \ {None}

\* the URLs that occur on the fetched pages only inside injected elements
OnlyInjectedTargets ==
    UNION {TargetsOf(html_pages[i], TRUE) : i \in 1..Len(html_pages)}
    \ UNION {TargetsOf(html_pages[i], FALSE) : i \in 1..Len(html_pages)}

\* C9: a URL that occurs only inside injected elements enters neither the
\* asset set nor the page-link set nor the discovery queue
InjectedLinksIgnored ==
    \A u \in OnlyInjectedTargets :
       u \notin all_asset_urls /\ u \notin page_links /\ u \notin DOMAIN enqueued

\* C10: a URL whose page or asset fetch failed has no entry in the
\* URL->LocalPath table and no file in the output tree, whatever else the
\* run goes on to fetch, rewrite and write
FailedFetchLeavesNothing ==
    \A u \in failed : u \notin DOMAIN url_to_local /\ url_to_local_path(u) \notin DOMAIN files

\* C11: an error of an index query (a timeout, a refused connection, an
\* answer that is not JSON) never ends the run before archive() has reached
\* its end
IndexErrorNeverAborts == pc # "aborted"

\* the steps of archive() from the first rewritten page to its end
InRewritePhase == pc \in {"rewrite", "js", "index", "done"}

OnlyTableSharedByThreads == Cardinality(touched.cache) <= 1

\* C14: whenever clean_url returns a value, cleaning that value again
\* returns the same value
CleanUrlIdempotent == (u_again # Pending) => (u_again = u_clean)

\* PurePath.suffix of a file name: from its last dot, when that dot is
\* neither the first nor the last character
SuffixAt(name, dot) == IF 1 < dot /\ dot < Len(name) THEN From(name, dot) ELSE <<>>

Suffix(name) == SuffixAt(name, RFind(name, <<".">>))

\* C15: the file name of every path url_to_local_path returns has an
\* extension, and the extension is not .php
MappedNameHasExtension ==
    (u_path # Pending) =>
        /\ Suffix(u_path[Len(u_path)]) # <<>>
        /\ Suffix(u_path[Len(u_path)]) # DOT_PHP

\* the URL convert_php_url_to_html_path was called on, parsed
ConvertedUrl == urlparse(u_clean)

IsPhpPath(parsed) == EndsWith(parsed.path, DOT_PHP)

\* C16 as stated: convert_php_url_to_html_path returns a path only for a
\* .php URL that carries a query, and None for every other URL
ConvertNeedsQuery ==
    (u_conv # Pending) =>
        ((u_conv # None) <=> (IsPhpPath(ConvertedUrl) /\ ConvertedUrl.query # <<>>))

\* C16: convert_php_url_to_html_path returns None exactly for the URLs whose
\* path does not end in .php; a .php URL without a query gets its path with
\* .php replaced by .html
ConvertNullIffNotPhp ==
    (u_conv # Pending) =>
        /\ (u_conv = None) <=> ~IsPhpPath(ConvertedUrl)
        /\ (IsPhpPath(ConvertedUrl) /\ ConvertedUrl.query = <<>>) =>
              u_conv = SubSeq(ConvertedUrl.path, 1, Len(ConvertedUrl.path) - 4) \o DOT_HTML

\* a .php URL without a query was converted to a path
ConvertedWithoutQuery ==
    /\ u_conv \notin {Pending, None}
    /\ IsPhpPath(ConvertedUrl)
    /\ ConvertedUrl.query = <<>>

\* the URLs a value holds: the first word of every candidate of a srcset,
\* the value itself for the other attributes
RefTokensOf(pieces) == [i \in 1..Len(pieces) |-> Words(pieces[i])[1]]

RefTokens(e, v) == IF e.attr = "srcset" THEN RefTokensOf(Split(v, ",")) ELSE <<v>>

\* the number of '..' segments of a relative path
DotDots(ref) ==
    Cardinality({i \in 1..Len(Split(ref, "/")) : Split(ref, "/")[i] = DOTDOT})

\* the file below the output root a root-absolute reference stands for: the
\* mapped file for a dynamic script, the path below the root otherwise
RootTarget(p) ==
    IF Contains(p, DOT_PHP) THEN url_to_local_path(SITE \o p)
    ELSE normpath(PathJoin(ARCHIVE_DIR, p))

RootRefRewritten(page_path, before, after) ==
    /\ ResolveRef(page_path, after) = RootTarget(before)
    /\ DotDots(after) = Len(page_path) - 2

RootRefsRewritten(page_path, before, after) ==
    \A i \in 1..Len(before) : RootRefRewritten(page_path, before[i], after[i])

\* C17: every root-absolute reference /p in href, src, action, data, poster
\* or a srcset candidate is rewritten to a relative path that names
\* output-root/p from the directory of the page and has as many '..' segments
\* as that directory lies below the output root
RootRefsResolveToRoot ==
    (p_out # Pending /\ p_elem \in RootRefs) =>
        RootRefsRewritten(url_to_local_path(p_page), RefTokens(p_elem, p_elem.value),
                          RefTokens(p_elem, p_out))

\* a root-absolute reference that is not a dynamic script names, after the
\* rewriting, the file output-root/p
StaticRootRefsResolve ==
    (p_out # Pending /\ p_elem \in RootRefs /\ ~Contains(p_elem.value, DOT_PHP)) =>
        \A i \in 1..Len(RefTokens(p_elem, p_out)) :
            ResolveRef(url_to_local_path(p_page), RefTokens(p_elem, p_out)[i])
                = RootTarget(RefTokens(p_elem, p_elem.value)[i])

\* an un-wrapped reference to another site that was not downloaded
IsExternal(clean, utl) ==
    /\ clean # None
    /\ IsAbsolute(clean)
    /\ ~IsOurDomain(clean)
    /\ clean \notin DOMAIN utl

ExternalLeftClean(before, after, utl) ==
    \A i \in 1..Len(before) :
        IsExternal(clean_url(before[i]), utl) => after[i] = clean_url(before[i])

\* C18: a reference to another site that has no entry in url_to_local is
\* left by rewrite_html_links as its un-wrapped absolute URL, unchanged in
\* scheme, host, path and extension
ExternalRefsKept ==
    (p_out # Pending /\ p_elem \in RefElems) =>
        ExternalLeftClean(RefTokens(p_elem, p_elem.value), RefTokens(p_elem, p_out),
                          url_to_local)

\* a reference to a resource of the target site, or a relative one
IsSiteOrRelative(clean) == clean # None /\ (~IsAbsolute(clean) \/ IsOurDomain(clean))

\* the value names a dynamic script
NamesPhp(v) == EndsWith(urlparse(v).path, DOT_PHP)

\* C19: after rewrite_html_links no href, src or form action that refers to
\* the target site or to a relative resource names a .php resource
NoPhpLeft ==
    (/\ p_out # Pending
     /\ p_elem \in RefElems
     /\ p_elem.attr \in {"href", "src", "action"}
     /\ IsSiteOrRelative(clean_url(p_elem.value))) => ~NamesPhp(p_out)

\* C20: with url_to_local, php_to_html and the page path fixed, rewriting a
\* rewritten page (rewrite_html_links) or a rewritten stylesheet
\* (rewrite_css) changes nothing
RewriteIdempotent == (p_again # Pending) => (p_again = p_out)

\* the candidates of a srcset value that have words
SrcsetCandidates(v) == SelectSeq(SrcsetParts(Split(v, ",")), IsNonBlank)

\* the value rewrite_html_links leaves in <img src="url"> on the same page
AsImgSrc(url, page_path, utl, php) == RewriteValue(Elem("img", "src", url), page_path, utl, php)

\* every candidate of after has the URL an src attribute would get, and the
\* descriptors of the candidate of before
CandidatesAgree(before, after, page_path, utl, php) ==
    /\ Len(after) = Len(before)
    /\ \A i \in 1..Len(before) :
          /\ after[i][1] = AsImgSrc(before[i][1], page_path, utl, php)
          /\ Tail(after[i]) = Tail(before[i])

\* C21: the URL of every srcset candidate is resolved as the same URL is in
\* a reference-bearing attribute, and the descriptors of every candidate are
\* left unchanged and in order
SrcsetResolvedAsAttribute ==
    (p_out # Pending /\ p_elem \in RefElems /\ p_elem.attr = "srcset") =>
        CandidatesAgree(SrcsetCandidates(p_elem.value), SrcsetCandidates(p_out),
                        url_to_local_path(p_page), url_to_local, php_to_html)

\* C22: the reference of a url() in an inline style attribute or in a
\* <style> block is written as the same URL is written in a
\* reference-bearing attribute of the same page
StyleResolvedAsAttribute ==
    (p_out # Pending /\ p_elem \in RefElems /\ IsStyleText(p_elem)) =>
        p_out = AsImgSrc(p_elem.value, url_to_local_path(p_page), url_to_local, php_to_html)

\* C23: when archive() has run to its end the output root holds index.html,
\* which is the stored entry page or a redirect page
RootIndexPresent ==
    (pc = "done") =>
        /\ IndexPath \in DOMAIN files
        /\ \/ files[IndexPath].kind = "redirect"
           \/ main_page_local_path = IndexPath

\* C24: the timestamp a page is fetched at is, among the timestamps of all the
\* rows the index returned for its URL, in one answer or in the answers to
\* the www and the apex query, one closest to the snapshot timestamp
ClosestTimestampFetched ==
    \A r \in index_rows, other \in index_rows :
        (last_call.key = CacheKey(r[2], r[1]) /\ other[1] = r[1]) => ~Closer(other[2], r[2])

\* the capture times a URL can be fetched at
FetchTimes == {SNAPSHOT_TIMESTAMP, OTHER_TIMESTAMP, FAR_TIMESTAMP}

\* a request for url was answered with a 200 in this run
FetchSucceeded(url) == \E t \in FetchTimes : CacheKey(t, url) \in downloaded_urls

\* no step removes a key of url_to_local or changes its value
TableKept ==
    \A k \in DOMAIN url_to_local : k \in DOMAIN url_to_local' /\ url_to_local'[k] = url_to_local[k]

\* C26: url_to_local only grows during a run: a key, once inserted, keeps its
\* value and is never removed; every key is a URL whose fetch succeeded in
\* this run, and its value is url_to_local_path of the key
TableAppendOnly ==
    /\ [][TableKept]_vars
    /\ [](\A k \in DOMAIN url_to_local :
             FetchSucceeded(k) /\ url_to_local[k] = url_to_local_path(k))

\* the run has ended with a page and an asset in url_to_local
TableHoldsPageAndAsset ==
    /\ pc = "done"
    /\ \E k \in DOMAIN url_to_local : k \in downloaded_pages
    /\ \E k \in DOMAIN url_to_local : k \in DOMAIN futures /\ futures[k] = "saved"
    /\ Cardinality(DOMAIN url_to_local) >= 3

\* the remainder of a protocol-relative value names a local file: it ends in
\* .html, holds .html? or .html#, or has no dot in its first segment
RemainderIsLocal(remainder) ==
    \/ EndsWith(remainder, DOT_HTML)
    \/ Contains(remainder, DOT_HTML \o <<"?">>)
    \/ Contains(remainder, DOT_HTML \o <<"#">>)
    \/ ~Contains(Before(remainder, "/"), <<".">>)

\* the bare remainder of a local reference, https: and the value otherwise
NormalizedProtocolRelative(v) ==
    IF RemainderIsLocal(From(v, 3)) THEN From(v, 3) ELSE <<"h","t","t","p","s",":">> \o v

\* C27: rewrite_html_links turns every href and src that starts with // into
\* its bare remainder when the remainder names a local file, and into https:
\* followed by the value otherwise
ProtocolRelativeNormalized ==
    (/\ p_out # Pending
     /\ p_elem \in RefElems
     /\ p_elem.attr \in {"href", "src"}
     /\ StartsWith(p_elem.value, <<"/","/">>)) =>
        p_out = NormalizedProtocolRelative(p_elem.value)

\* C28: every page fetched during discovery is stored under a local path of
\* its own: html_pages holds one record per fetched page
OnePathPerPage ==
    /\ Len(html_pages) = page_count
    /\ \A u1 \in downloaded_pages, u2 \in downloaded_pages :
          u1 # u2 => url_to_local[u1] # url_to_local[u2]

\* the assets that were fetched and written by the pool
SavedAssets == {u \in DOMAIN futures : futures[u] = "saved"}

\* C29: the output tree the pool leaves does not depend on the order in which
\* the asset tasks complete: when the pool is left, the file of every saved
\* asset holds the content fetched for that asset, whichever task was
\* written last
TreeIndependentOfOrder ==
    (pc = "rewrite" /\ rewritten = 0) =>
        \A u \in SavedAssets :
            files[url_to_local[u]] = [kind |-> "bytes", body |-> ArchiveBody(u)]


\* what the injections create in a document
InjectedParts(soup) == <<soup.metas, soup.links, soup.hamburger, soup.scripts, soup.banners>>

\* the number of viewport metas and of links to a responsive.css
Viewports(soup) == Cardinality({i \in 1..Len(soup.metas) : soup.metas[i] = "viewport"})

ResponsiveLinks(soup) ==
    Cardinality({i \in 1..Len(soup.links) : Contains(soup.links[i], RESPONSIVE_CSS)})

\* the number of newContent divs of a file, 0 for a file that does not exist
NewContentDivs(html) ==
    IF html = None THEN 0 ELSE Cardinality({i \in 1..Len(html) : html[i] = NEW_CONTENT})

\* the file exists and has the newContent div after the marker
HasContentDiv(dir, name, blurb_marker) ==
    /\ Exists(dir, name)
    /\ In(blurb_marker, dir[name])
    /\ ~LacksContentDiv(dir[name], blurb_marker)

\* the step is a call of the editing function op
EditCall(op) == e_ret'.n = e_ret.n + 1 /\ e_ret'.op = op

\* the call added nothing to the document and returned False
NothingInjected == InjectedParts(e_soup') = InjectedParts(e_soup) /\ ~e_ret'.value

\* a call on a document, or a file, that already has what the call injects
SecondInjection ==
    /\ (EditCall("inject_responsive") /\ HasViewport(e_soup) /\ HasResponsiveLink(e_soup))
           => NothingInjected
    /\ (EditCall("inject_hamburger_menu") /\ e_soup.hamburger # <<>>) => NothingInjected
    /\ (EditCall("inject_mobile_banner") /\ e_soup.banners > 0) => NothingInjected
    /\ (EditCall("add_content_divs") /\ HasContentDiv(e_files, INDEX_PAGE, BLURB_INDEX))
           => (e_files'[INDEX_PAGE] = e_files[INDEX_PAGE] /\ ~e_ret'.index)
    /\ (EditCall("add_content_divs") /\ HasContentDiv(e_files, EVENTS_PAGE, BLURB_EVENTS))
           => (e_files'[EVENTS_PAGE] = e_files[EVENTS_PAGE] /\ ~e_ret'.events)

\* no element is there twice, and after a call the element it injects is
\* there once, in a document and a file it can be injected in
InjectedOnce ==
    /\ Viewports(e_soup) <= 1
    /\ ResponsiveLinks(e_soup) <= 1
    /\ Len(e_soup.hamburger) <= 1
    /\ Len(e_soup.scripts) <= 1
    /\ e_soup.banners <= 1
    /\ \A name \in PublishNames : NewContentDivs(e_files[name]) <= 1
    /\ (e_ret.op = "inject_responsive" /\ e_soup.head)
           => (Viewports(e_soup) = 1 /\ ResponsiveLinks(e_soup) = 1)
    /\ (e_ret.op = "inject_hamburger_menu" /\ e_soup.menu)
           => (Len(e_soup.hamburger) = 1 /\ Len(e_soup.scripts) = 1)
    /\ (e_ret.op = "inject_mobile_banner" /\ e_soup.menu) => e_soup.banners = 1
    /\ (e_ret.op = "add_content_divs" /\ Exists(e_files, INDEX_PAGE)
            /\ In(BLURB_INDEX, e_files[INDEX_PAGE]))
           => NewContentDivs(e_files[INDEX_PAGE]) = 1
    /\ (e_ret.op = "add_content_divs" /\ Exists(e_files, EVENTS_PAGE)
            /\ In(BLURB_EVENTS, e_files[EVENTS_PAGE]))
           => NewContentDivs(e_files[EVENTS_PAGE]) = 1

\* C25: each editing injection is idempotent: inject_responsive,
\* inject_hamburger_menu and inject_mobile_banner called on a document that
\* already has what they inject, and add_content_divs called on a file that
\* already has the newContent div after the marker, add nothing and return
\* False; so, however often they are called, a document has one viewport
\* meta, one link to responsive.css, one #hamburger-btn and one
\* #mobile-banner, and a file one newContent div
InjectionsIdempotent == [][SecondInjection]_vars /\ []InjectedOnce

\* every injection was called on a page with a head and a menu, the banner
\* twice, and the second call returned False
BannerInjectedTwice ==
    /\ e_ret = [n |-> MaxCalls, op |-> "inject_mobile_banner", value |-> FALSE]
    /\ e_soup.banners = 1
    /\ e_soup.menu

\* the step is a call of move_last_show_to_past_events on the directory
MoveCall == EditCall("move_last_show_to_past_events")

\* the entry the call wrote is numbered one more than the highest number
\* that started a line of past.html
NumberedNext(past_before, past_after) ==
    \E i \in 1..(Len(past_after) - 2) :
        /\ past_after[i + 1] = InlineNumber[LastNumber(past_before) + 1]
        /\ past_after[i + 2] = SHOW_DATE
        /\ SubSeq(past_after, 1, i - 1) \o SubSeq(past_after, i + 6, Len(past_after))
               = past_before

\* a call that returned False left both files as they were, and a call that
\* returned True left the show on past.html only
MovedOrUntouched ==
    /\ ~e_ret'.value => e_files' = e_files
    /\ e_ret'.value =>
           /\ ~In(LAST_SHOW_MARKER, e_files'[EVENTS_PAGE])
           /\ In(LAST_SHOW_MARKER, e_files'[PAST_PAGE])
           /\ ~In(LAST_SHOW_MARKER, e_files[PAST_PAGE])
                  => NumberedNext(e_files[PAST_PAGE], e_files'[PAST_PAGE])
    /\ e_files'[EVENTS_PAGE] # e_files[EVENTS_PAGE]
           => In(LAST_SHOW_MARKER, e_files'[PAST_PAGE])

\* C30: move_last_show_to_past_events is all-or-nothing: when it returns
\* False, events.html and past.html are as they were; when it returns True,
\* the last show is no longer on events.html and is on past.html, numbered
\* one more than the highest show number when it was inserted; the show is
\* never removed from events.html without being on past.html
MoveAllOrNothing == [][MoveCall => MovedOrUntouched]_vars

====
